---- MODULE Spec2Model ----
(***************************************************************************)
(* Behavioural feature extraction engine of Autisense                      *)
(* (ml-service/services/features): the seven per-feature detectors and the *)
(* VideoFeatureOrchestrator that fans frames out to them.                  *)
(*                                                                         *)
(* Units.  Timestamps and durations are integers in milliseconds; eye      *)
(* aspect ratios (EAR) are in hundredths; normalized image coordinates and *)
(* movements are in thousandths.  The landmark providers (MediaPipe, Haar  *)
(* cascade) and the emotion service are inputs of the actions.             *)
(***************************************************************************)
EXTENDS Integers, Sequences, FiniteSets, TLC

VARIABLES
    now,              \* timestamp of the last frame the caller sent (None before the first)
    blink_rate,       \* BlinkRateFeature fields
    eye_contact,      \* EyeContactFeature fields
    gesture_detection,\* GestureDetectionFeature fields
    bursts,           \* history: the movement bursts the gesture detector was shown
    head_repetition,  \* HeadRepetitionFeature fields
    hand_repetition,  \* HandRepetitionFeature fields
    head_movement,    \* HeadMovementFeature fields
    expression_variability, \* ExpressionVariabilityFeature fields
    orchestrator,     \* VideoFeatureOrchestrator's frame_count, session_start_time
    gesture_twin,     \* a second GestureDetectionFeature, shown a session that
                      \* differs from gesture_detection's in its warm-up frames only
    shifted,          \* a second engine, shown the same frames with every
                      \* timestamp moved by the same amount (origin)
    call              \* the last call made on the engine and how it returned

vars == <<now, blink_rate, eye_contact, gesture_detection, bursts, gesture_twin, shifted,
          head_repetition, hand_repetition, head_movement,
          expression_variability, orchestrator, call>>

\* Python's None, for the Optional[float] fields (timestamps are >= 0).
None == -1

(***************************************************************************)
(* Bounds of the model                                                     *)
(***************************************************************************)
\* frames sent to a single detector in the per-detector specifications
BlinkMaxFrames == 6

\* timestamp of the first frame of a session: session-relative or wall-clock
StartTimes == {0, 1000}

\* time between two frames sent to the blink detector
BlinkSteps == {10, 50, 100, 400, 2000}

\* average eye aspect ratios the face mesh can yield: closed, at the closed
\* threshold, between the thresholds, at the open threshold, open
EarValues == {10, 16, 18, 21, 30}

\* what the face mesh yields for one frame: no face (None) or a face with an EAR
FaceObs == {None} \cup EarValues

\* frames sent to the eye-contact detector, and the time between two of them
EyeMaxFrames == 6
EyeSteps == {0, 500, 1000, 2000}

\* faces the mesh can yield for the eye-contact checks: average EAR, nose
\* offset from the eye midpoint over the eye separation, left and right iris
\* position between the eye corners (all in hundredths); detected = FALSE is a frame with no face
NoFace == [detected |-> FALSE, ear |-> 0, nose |-> 0, gaze_left |-> 0, gaze_right |-> 0]
EyeFaces ==
    { NoFace,
      [detected |-> TRUE, ear |-> 30, nose |-> 10, gaze_left |-> 50, gaze_right |-> 50],  \* looking
      [detected |-> TRUE, ear |-> 20, nose |-> 10, gaze_left |-> 50, gaze_right |-> 50],  \* eyes at the threshold
      [detected |-> TRUE, ear |-> 30, nose |-> 35, gaze_left |-> 50, gaze_right |-> 50],  \* head turned
      [detected |-> TRUE, ear |-> 30, nose |-> 10, gaze_left |-> 50, gaze_right |-> 70] } \* gaze averted

\* frames sent to the gesture detector, and the time between two of them
GestureMaxFrames == 7
\* frames of the two sessions compared for the warm-up exclusion
WarmupMaxFrames == 4
GestureSteps == {200, 500, 2000}

\* what MediaPipe Hands yields for one frame: no hand, or the palm centre
\* (landmark 9) at one of a few places (thousandths of the frame)
NoHand == [detected |-> FALSE, x |-> 0, y |-> 0]
Hands ==
    { NoHand,
      [detected |-> TRUE, x |-> 500, y |-> 500],
      [detected |-> TRUE, x |-> 500, y |-> 530],    \* 0.03 from the first
      [detected |-> TRUE, x |-> 500, y |-> 540],    \* 0.04 from the first
      [detected |-> TRUE, x |-> 650, y |-> 500] }   \* 0.15 or more from the others

\* frames sent to the two repetition detectors in a session, qualifying head
\* windows accumulated in a session, and the time between two frames
RepMaxFrames == 19
RepMaxWindows == 2
RepStartTimes == {0}
RepSteps == {280}

\* frames sent to the expression detector in a session, the first timestamp
\* and the time between two frames
ExprMaxFrames == 20
ExprStartTimes == {0}
ExprSteps == {100, 250}

\* frames sent to the orchestrator in a session, frames of a session on which
\* a detector raises, the first timestamp, the time between two frames, and
\* the durations (ms) passed to get_session_summary
OrchMaxFrames == 3
OrchMaxFailures == 1
OrchStartTimes == {0}
OrchSteps == {200, 10000}
Durations == {2000, 12000}
\* session durations passed to BlinkRateFeature.get_summary, in ms
BlinkDurations == {2000, 2010, 62000}

\* what MediaPipe Pose yields for one frame: no pose, or the wrists' y (in
\* thousandths) with their visibility above 0.5 or not
NoPose == [detected |-> FALSE, left_visible |-> FALSE, left_y |-> 0,
           right_visible |-> FALSE, right_y |-> 0]
PoseLow == [detected |-> TRUE, left_visible |-> TRUE, left_y |-> 500,
            right_visible |-> TRUE, right_y |-> 530]
PoseHigh == [detected |-> TRUE, left_visible |-> TRUE, left_y |-> 530,
             right_visible |-> FALSE, right_y |-> 0]
Poses == { NoPose, PoseLow, PoseHigh }

\* what one frame holds for the two repetition detectors: the pose, and the
\* head pose's nose tip (x, y) in thousandths when a head pose is detected
RepFrames ==
    { [pose |-> NoPose, head_detected |-> TRUE, nose_tip |-> <<530, 530>>],
      [pose |-> PoseLow, head_detected |-> TRUE, nose_tip |-> <<500, 500>>],
      [pose |-> PoseHigh, head_detected |-> TRUE, nose_tip |-> <<530, 500>>] }

\* what one frame sent to the orchestrator holds for the providers: whether
\* the image decodes, the face mesh's face, the head pose and its nose tip,
\* the pose, the hand, the Haar cascade's face, and what the emotion service
\* yields if it is called
FrameEmpty ==
    [decodable |-> TRUE, face |-> NoFace, head_detected |-> FALSE,
     nose_tip |-> <<0, 0>>, pose |-> NoPose, hand |-> NoHand, haar_face |-> FALSE,
     outcome |-> [kind |-> "timeout", emotion |-> ""]]
FrameLooking ==
    [decodable |-> TRUE,
     face |-> [detected |-> TRUE, ear |-> 30, nose |-> 10,
               gaze_left |-> 50, gaze_right |-> 50],
     head_detected |-> TRUE, nose_tip |-> <<500, 500>>, pose |-> PoseLow,
     hand |-> [detected |-> TRUE, x |-> 500, y |-> 500], haar_face |-> TRUE,
     outcome |-> [kind |-> "ok", emotion |-> "happy"]]
FrameEyesShut ==
    [decodable |-> TRUE,
     face |-> [detected |-> TRUE, ear |-> 10, nose |-> 10,
               gaze_left |-> 50, gaze_right |-> 50],
     head_detected |-> TRUE, nose_tip |-> <<530, 500>>, pose |-> PoseHigh,
     hand |-> [detected |-> TRUE, x |-> 500, y |-> 540], haar_face |-> TRUE,
     outcome |-> [kind |-> "timeout", emotion |-> ""]]
FrameUndecodable == [FrameEmpty EXCEPT !.decodable = FALSE]
OrchFrames == { FrameEmpty, FrameLooking, FrameEyesShut, FrameUndecodable }

\* a frame together with the detector whose provider raises on it
FrameInputs ==
    { [frame |-> f, fail |-> "none"] : f \in OrchFrames }
    \cup { [frame |-> FrameLooking, fail |-> d] :
              d \in { "eye_contact", "blink_rate", "head_movement", "hand_repetition",
                      "gesture_detection", "expression_variability" } }

(***************************************************************************)
(* BlinkRateFeature                                                        *)
(***************************************************************************)
EYE_CLOSED_EAR == 16
EYE_OPEN_EAR == 21
MIN_BLINK_DURATION == 60
MAX_BLINK_DURATION == 400
BLINK_WARMUP == 2000

BlinkInit ==
    [session_start_time |-> None, eye_closed |-> FALSE, blink_start_time |-> None,
     blink_timestamps |-> <<>>, face_detected_frames |-> 0, total_frames |-> 0]

\* a closure that lasts longer than MAX_BLINK_DURATION still counts
BlinkDurationOk_NoMax(duration) ==
    MIN_BLINK_DURATION <= duration

\* the time gate on a closed-to-open transition
BlinkDurationOk(duration) ==
    MIN_BLINK_DURATION <= duration /\ duration <= MAX_BLINK_DURATION

\* extract() up to the face-mesh call: session start and frame counter
BlinkEnter(b, ts) ==
    [b EXCEPT !.session_start_time = IF @ = None THEN ts ELSE @,
              !.total_frames = @ + 1]

\* one cutoff: a closed eye reopens as soon as the EAR is back at EYE_CLOSED_EAR
Reopens_AtClosedThreshold(b, ear) == b.eye_closed /\ ear >= EYE_CLOSED_EAR

\* elif self.eye_closed and avg_ear > self.EYE_OPEN_EAR
Reopens(b, ear) == b.eye_closed /\ ear > EYE_OPEN_EAR

\* extract(frame, timestamp): face = a face was detected, ear = its average EAR
BlinkExtract(b, ts, face, ear) ==
    LET b1 == BlinkEnter(b, ts)
        elapsed == ts - b1.session_start_time
        b2 == [b1 EXCEPT !.face_detected_frames = @ + 1]
    IN  IF ~face THEN b1
        ELSE IF elapsed < BLINK_WARMUP THEN b2
        ELSE IF ear < EYE_CLOSED_EAR THEN
            IF ~b2.eye_closed
            THEN [b2 EXCEPT !.eye_closed = TRUE, !.blink_start_time = ts]
            ELSE b2
        ELSE IF Reopens(b2, ear) THEN
            [b2 EXCEPT
                !.blink_timestamps =
                    IF b2.blink_start_time # None
                       /\ BlinkDurationOk(ts - b2.blink_start_time)
                    THEN Append(@, ts) ELSE @,
                !.eye_closed = FALSE,
                !.blink_start_time = None]
        ELSE b2

\* reset()
BlinkReset(b) == BlinkInit

(***************************************************************************)
(* Numeric helpers                                                         *)
(***************************************************************************)
Abs(x) == IF x < 0 THEN -x ELSE x
Max(a, b) == IF a >= b THEN a ELSE b
Min(a, b) == IF a <= b THEN a ELSE b

\* round(1000 * n / d): Python's round(x, 3) of the quotient n / d, in
\* thousandths (ties to even), for n >= 0 and d > 0
Round3(n, d) ==
    LET q == (1000 * n) \div d
        r == (1000 * n) % d
    IN  IF 2 * r > d \/ (2 * r = d /\ q % 2 = 1) THEN q + 1 ELSE q

RECURSIVE SumDurations(_)
\* sum(end - start for start, end in segments)
SumDurations(segs) ==
    IF segs = <<>> THEN 0
    ELSE (Head(segs)[2] - Head(segs)[1]) + SumDurations(Tail(segs))

\* face_ratio <= 0.5 instead of face_ratio < 0.5
PoorFaceTracking_AtMostHalf(b) ==
    2 * b.face_detected_frames <= Max(b.total_frames, 1)

\* face_ratio < 0.5, with face_ratio = face_detected_frames / max(total_frames, 1)
PoorFaceTracking(b) ==
    2 * b.face_detected_frames < Max(b.total_frames, 1)

\* BlinkRateFeature.get_summary(session_duration_seconds): duration in ms,
\* the rate per minute in hundredths
BlinkSummary(b, duration) ==
    LET effective == duration - BLINK_WARMUP
        total == Len(b.blink_timestamps)
    IN  IF duration <= BLINK_WARMUP
        THEN [blink_rate_per_minute |-> 0, level |-> "insufficient_data",
              total_blinks |-> 0, data_quality |-> "too_short"]
        ELSE IF PoorFaceTracking(b)
        THEN [blink_rate_per_minute |-> 0, level |-> "insufficient_data",
              total_blinks |-> total, data_quality |-> "poor_face_tracking"]
        ELSE [blink_rate_per_minute |->
                  IF total * 60000 >= 60 * effective THEN 6000
                  ELSE Round3(total * 6000, effective),
              level |-> IF total * 12000 < effective THEN "low"
                        ELSE IF total * 2400 <= effective THEN "normal"
                        ELSE "high",
              total_blinks |-> total, data_quality |-> "good"]

(***************************************************************************)
(* EyeContactFeature                                                       *)
(***************************************************************************)
EYE_OPEN_THRESHOLD == 20
NOSE_CENTER_THRESHOLD == 35
GAZE_CENTER_THRESHOLD == 15
EYE_WARMUP == 2000
MIN_EYE_CONTACT_DURATION == 1000
\* 0.033 s per frame and the 1.0 s floor of get_summary's session_time
EYE_FRAME_MS == 33
EYE_MIN_SESSION == 1000

EyeInit ==
    [session_start_time |-> None, total_frames |-> 0, face_detected_count |-> 0,
     current_contact_start |-> None, eye_contact_segments |-> <<>>]

\* looking = eyes_open and head_centered and gaze_centered
Looking(f) ==
    /\ f.ear > EYE_OPEN_THRESHOLD
    /\ f.nose < NOSE_CENTER_THRESHOLD
    /\ Abs(f.gaze_left - 50) < GAZE_CENTER_THRESHOLD
    /\ Abs(f.gaze_right - 50) < GAZE_CENTER_THRESHOLD

\* an _end_eye_contact that records the dwell whatever its duration
EndEyeContact_KeepsShort(e, ts) ==
    IF e.current_contact_start = None THEN e
    ELSE [e EXCEPT
            !.eye_contact_segments = Append(@, <<e.current_contact_start, ts>>),
            !.current_contact_start = None]

\* _end_eye_contact(timestamp)
EndEyeContact(e, ts) ==
    IF e.current_contact_start = None THEN e
    ELSE [e EXCEPT
            !.eye_contact_segments =
                IF ts - e.current_contact_start >= MIN_EYE_CONTACT_DURATION
                THEN Append(@, <<e.current_contact_start, ts>>) ELSE @,
            !.current_contact_start = None]

\* extract() up to the face-mesh call
EyeEnter(e, ts) ==
    [e EXCEPT !.session_start_time = IF @ = None THEN ts ELSE @,
              !.total_frames = @ + 1]

\* extract(frame, timestamp): face = what the face mesh yields, one of EyeFaces
EyeExtract(e, ts, face) ==
    LET e1 == EyeEnter(e, ts)
        elapsed == ts - e1.session_start_time
        e2 == [e1 EXCEPT !.face_detected_count = @ + 1]
    IN  IF ~face.detected THEN EndEyeContact(e1, ts)
        ELSE IF elapsed >= EYE_WARMUP THEN
            IF Looking(face)
            THEN IF e2.current_contact_start = None
                 THEN [e2 EXCEPT !.current_contact_start = ts] ELSE e2
            ELSE EndEyeContact(e2, ts)
        ELSE e2

\* get_summary raises TypeError at session_start_time + 1e-6 when no frame
\* has set session_start_time
EyeSummaryRaises(e) == e.session_start_time = None

\* an open segment is ended at the last frame's timestamp
EyeAfterSummary_ClosesAtLastFrame(e) ==
    IF e.current_contact_start # None THEN EndEyeContact(e, now) ELSE e

\* the detector after get_summary(): an open segment is ended at its own start
EyeAfterSummary(e) ==
    IF e.current_contact_start # None
    THEN EndEyeContact(e, e.current_contact_start) ELSE e

\* the session time read off the clock: total_duration of get_summary
EyeSessionTime_FromStartTime(e) == Max(e.session_start_time, 1)

\* session_time = max(total_frames * 0.033, 1.0)
EyeSessionTime(e) == Max(e.total_frames * EYE_FRAME_MS, EYE_MIN_SESSION)

\* a segment still open at the call is credited MIN_EYE_CONTACT_DURATION
EyeSummary_CreditsOpenSegment(e) ==
    LET e1 == EyeAfterSummary(e)
        time == SumDurations(e1.eye_contact_segments)
                + (IF e.current_contact_start # None THEN MIN_EYE_CONTACT_DURATION ELSE 0)
        session_time == EyeSessionTime(e1)
    IN  IF EyeSummaryRaises(e) THEN [raised |-> "TypeError"]
        ELSE [raised |-> "no",
              eye_contact_ratio |-> Round3(time, session_time),
              level |-> IF 100 * time < 50 * session_time THEN "low"
                        ELSE IF 100 * time < 70 * session_time THEN "moderate"
                        ELSE "high",
              face_detection_ratio |->
                  Round3(e1.face_detected_count, Max(e1.total_frames, 1))]

\* the dictionary get_summary() returns (ratios in thousandths)
EyeSummary(e) ==
    LET e1 == EyeAfterSummary(e)
        time == SumDurations(e1.eye_contact_segments)
        session_time == EyeSessionTime(e1)
    IN  IF EyeSummaryRaises(e) THEN [raised |-> "TypeError"]
        ELSE [raised |-> "no",
              eye_contact_ratio |-> Round3(time, session_time),
              level |-> IF 100 * time < 50 * session_time THEN "low"
                        ELSE IF 100 * time < 70 * session_time THEN "moderate"
                        ELSE "high",
              face_detection_ratio |->
                  Round3(e1.face_detected_count, Max(e1.total_frames, 1))]

\* reset()
EyeReset(e) == EyeInit

(***************************************************************************)
(* GestureDetectionFeature                                                 *)
(***************************************************************************)
MOVE_THRESHOLD == 30
GLITCH_LIMIT == 150
COOLDOWN_TIME == 700
PERSISTENCE_TIME == 200
GESTURE_WARMUP == 2000

GestureInit ==
    [prev_pos |-> <<None, None>>, prev_timestamp |-> None, gesture_start_time |-> None,
     last_trigger_time |-> 0, gesture_timestamps |-> <<>>,
     session_start_time |-> None, total_frames |-> 0]

\* np.linalg.norm(current_pos - prev_pos), squared
MovementSq(p, q) == (p[1] - q[1]) * (p[1] - q[1]) + (p[2] - q[2]) * (p[2] - q[2])

\* movement < GLITCH_LIMIT and movement > MOVE_THRESHOLD
Moving(p, q) ==
    /\ MovementSq(p, q) < GLITCH_LIMIT * GLITCH_LIMIT
    /\ MovementSq(p, q) > MOVE_THRESHOLD * MOVE_THRESHOLD

\* the cooldown is measured from the initial last_trigger_time (0.0): the
\* last counted gesture is not consulted
CooldownOver_Unchecked(current_time, last_trigger_time) ==
    current_time - 0 > COOLDOWN_TIME

\* the cooldown ends at COOLDOWN_TIME: >= instead of >
CooldownOver_AtLeast(current_time, last_trigger_time) ==
    current_time - last_trigger_time >= COOLDOWN_TIME

\* current_time - last_trigger_time > COOLDOWN_TIME
CooldownOver(current_time, last_trigger_time) ==
    current_time - last_trigger_time > COOLDOWN_TIME

\* no persistence check: the first moving frame may emit
Persists_Unchecked(current_time, gesture_start_time) == TRUE

\* gesture_duration >= PERSISTENCE_TIME
Persists(current_time, gesture_start_time) ==
    current_time - gesture_start_time >= PERSISTENCE_TIME

\* extract() up to the hands.process call
GestureEnter(g, ts) ==
    [g EXCEPT !.session_start_time = IF @ = None THEN ts ELSE @,
              !.total_frames = @ + 1]

\* the frame emits a gesture
GestureFires(g, ts, hand) ==
    LET g1 == GestureEnter(g, ts)
        cur == <<hand.x, hand.y>>
        start == IF g1.gesture_start_time = None THEN ts ELSE g1.gesture_start_time
    IN  /\ hand.detected
        /\ g1.prev_pos # <<None, None>> /\ g1.prev_timestamp # None
        /\ Moving(cur, g1.prev_pos)
        /\ Persists(ts, start)
        /\ ts - g1.session_start_time >= GESTURE_WARMUP
        /\ CooldownOver(ts, g1.last_trigger_time)

\* a lost hand that clears the previous position but keeps the candidate
HandLost_KeepsCandidate(g) ==
    [g EXCEPT !.prev_pos = <<None, None>>, !.prev_timestamp = None]

\* the else branch of extract: no hand detected
HandLost(g) ==
    [g EXCEPT !.prev_pos = <<None, None>>, !.prev_timestamp = None,
              !.gesture_start_time = None]

\* extract(image, timestamp): hand = what MediaPipe Hands yields, one of Hands
GestureExtract(g, ts, hand) ==
    LET g1 == GestureEnter(g, ts)
        cur == <<hand.x, hand.y>>
        tracked == g1.prev_pos # <<None, None>> /\ g1.prev_timestamp # None
        msq == MovementSq(cur, g1.prev_pos)
        start == IF g1.gesture_start_time = None THEN ts ELSE g1.gesture_start_time
        g2 == IF ~tracked \/ ~(msq < GLITCH_LIMIT * GLITCH_LIMIT) THEN g1
              ELSE IF ~(msq > MOVE_THRESHOLD * MOVE_THRESHOLD)
                   THEN [g1 EXCEPT !.gesture_start_time = None]
              ELSE IF GestureFires(g, ts, hand)
                   THEN [g1 EXCEPT !.last_trigger_time = ts,
                                   !.gesture_timestamps = Append(@, ts),
                                   !.gesture_start_time = None]
              ELSE [g1 EXCEPT !.gesture_start_time = start]
    IN  IF hand.detected
        THEN [g2 EXCEPT !.prev_pos = cur, !.prev_timestamp = ts]
        ELSE HandLost(g1)

\* get_summary(session_duration_seconds): duration in ms, frequency per minute
\* in hundredths
GestureSummary(g, duration) ==
    LET effective == duration - GESTURE_WARMUP
        total == Len(g.gesture_timestamps)
    IN  IF duration <= 0 \/ effective <= 0
        THEN [gesture_frequency_per_minute |-> 0, level |-> "insufficient_data",
              total_gestures |-> 0, total_frames |-> g.total_frames]
        ELSE [gesture_frequency_per_minute |->
                  IF total * 60000 >= 30 * effective THEN 3000
                  ELSE Round3(total * 6000, effective),
              level |-> IF total * 120000 < 3 * effective THEN "low"
                        ELSE IF total * 6000 <= effective THEN "normal"
                        ELSE "high",
              total_gestures |-> total, total_frames |-> g.total_frames]

\* reset()
GestureReset(g) == GestureInit

(***************************************************************************)
(* HeadRepetitionFeature                                                   *)
(***************************************************************************)
HEAD_TIME_WINDOW == 2000
HEAD_WARM_UP_PERIOD == 2000
MIN_TOTAL_TIME == 3000
HEAD_MIN_AMPLITUDE == 20
MIN_SPEED == 1
\* MAX_DRIFT_RATIO = 0.65, in hundredths
MAX_DRIFT_RATIO == 65
HEAD_MIN_OSCILLATIONS == 5
\* the 0.5 s kept beyond TIME_WINDOW when a buffer is trimmed
TRIM_MARGIN == 500
\* detect_oscillation and extract_from_window need at least 6 positions
HEAD_MIN_SAMPLES == 6

HeadRepInit ==
    [head_positions |-> <<>>, session_start_time |-> None,
     accumulated_stimming_time |-> 0, head_stimming_confirmed |-> FALSE]

SeqMax(vals) == CHOOSE m \in {vals[i] : i \in DOMAIN vals} :
                    \A i \in DOMAIN vals : vals[i] <= m
SeqMin(vals) == CHOOSE m \in {vals[i] : i \in DOMAIN vals} :
                    \A i \in DOMAIN vals : vals[i] >= m

RECURSIVE CountReversals(_, _, _)
\* the loop of _count_oscillations from index i on, prev_dir as it stands
CountReversals(values, i, prev_dir) ==
    IF i > Len(values) THEN 0
    ELSE LET d == values[i] - values[i - 1]
             curr_dir == IF d > 0 THEN 1 ELSE -1
         IN  IF Abs(d) < MIN_SPEED THEN CountReversals(values, i + 1, prev_dir)
             ELSE (IF prev_dir # 0 /\ curr_dir # prev_dir THEN 1 ELSE 0)
                  + CountReversals(values, i + 1, curr_dir)

\* _count_oscillations(values)
HeadCountOscillations(values) == CountReversals(values, 2, 0)

\* add_position storing the sample whatever the elapsed time
HeadAddPosition_NoWarmup(h, position, ts) ==
    LET h1 == [h EXCEPT !.session_start_time = IF @ = None THEN ts ELSE @]
        cutoff == ts - (HEAD_TIME_WINDOW + TRIM_MARGIN)
    IN  [h1 EXCEPT !.head_positions =
            SelectSeq(Append(@, <<ts, position>>), LAMBDA p : p[1] >= cutoff)]

\* add_position(position, timestamp)
HeadAddPosition(h, position, ts) ==
    LET h1 == [h EXCEPT !.session_start_time = IF @ = None THEN ts ELSE @]
        cutoff == ts - (HEAD_TIME_WINDOW + TRIM_MARGIN)
    IN  IF ts - h1.session_start_time < HEAD_WARM_UP_PERIOD THEN h1
        ELSE [h1 EXCEPT !.head_positions =
                 SelectSeq(Append(@, <<ts, position>>), LAMBDA p : p[1] >= cutoff)]

\* detect_oscillation(axis)["oscillations"], axis 1 = x, 2 = y
HeadDetectOscillation(h, axis) ==
    LET values == [i \in DOMAIN h.head_positions |-> h.head_positions[i][2][axis]]
        amplitude == SeqMax(values) - SeqMin(values)
        travel == Abs(values[Len(values)] - values[1])
    IN  IF Len(h.head_positions) < HEAD_MIN_SAMPLES THEN 0
        ELSE IF amplitude < HEAD_MIN_AMPLITUDE THEN 0
        ELSE IF 100 * travel > MAX_DRIFT_RATIO * amplitude THEN 0
        ELSE HeadCountOscillations(values)

\* total of extract_from_window: max(h["oscillations"], v["oscillations"])
HeadWindowTotal(h) ==
    IF Len(h.head_positions) < HEAD_MIN_SAMPLES THEN 0
    ELSE Max(HeadDetectOscillation(h, 1), HeadDetectOscillation(h, 2))

\* window_valid of extract_from_window
HeadWindowValid(h) ==
    /\ Len(h.head_positions) >= HEAD_MIN_SAMPLES
    /\ HeadWindowTotal(h) >= HEAD_MIN_OSCILLATIONS

\* the flag is set by the first qualifying window
HeadConfirmedAfter_SingleWindow(confirmed, accumulated) ==
    IF accumulated > 0 THEN TRUE ELSE confirmed

\* head_stimming_confirmed after an evaluation that left accumulated seconds
HeadConfirmedAfter(confirmed, accumulated) ==
    IF accumulated >= MIN_TOTAL_TIME THEN TRUE ELSE confirmed

\* the detector after extract_from_window()
HeadExtractFromWindow(h) ==
    LET valid == HeadWindowValid(h)
        acc == IF valid THEN h.accumulated_stimming_time + HEAD_TIME_WINDOW
               ELSE h.accumulated_stimming_time
    IN  IF Len(h.head_positions) < HEAD_MIN_SAMPLES THEN h
        ELSE [h EXCEPT !.accumulated_stimming_time = acc,
                       !.head_stimming_confirmed = HeadConfirmedAfter(@, acc)]

\* get_summary()
HeadRepSummary(h) ==
    [detected |-> h.head_stimming_confirmed,
     level |-> IF h.head_stimming_confirmed THEN "PRESENT" ELSE "ABSENT"]

\* reset()
HeadRepReset(h) == HeadRepInit

(***************************************************************************)
(* HandRepetitionFeature                                                   *)
(***************************************************************************)
HAND_TIME_WINDOW == 2000
HAND_WARM_UP_PERIOD == 2000
CONFIRM_WINDOWS == 3
HAND_MIN_AMPLITUDE == 20
HAND_MAX_AMPLITUDE == 250
HAND_MIN_OSCILLATIONS == 6
\* _count_oscillations needs at least 8 samples in the window
HAND_MIN_SAMPLES == 8

HandRepInit ==
    [left_positions |-> <<>>, right_positions |-> <<>>, session_start_time |-> None,
     confirmed_windows |-> 0, hand_stimming_confirmed |-> FALSE]

\* np.sign
Sign(d) == IF d > 0 THEN 1 ELSE IF d < 0 THEN -1 ELSE 0

\* _count_oscillations(positions, now)
HandCountOscillations(positions, ts) ==
    LET window == SelectSeq(positions, LAMBDA p : p[1] >= ts - HAND_TIME_WINDOW)
        ys == [i \in DOMAIN window |-> window[i][2]]
        amplitude == SeqMax(ys) - SeqMin(ys)
    IN  IF Len(window) < HAND_MIN_SAMPLES THEN 0
        ELSE IF amplitude < HAND_MIN_AMPLITUDE \/ amplitude > HAND_MAX_AMPLITUDE THEN 0
        ELSE Cardinality({ i \in 2 .. (Len(ys) - 1) :
                 Sign(ys[i + 1] - ys[i]) * Sign(ys[i] - ys[i - 1]) < 0 })

\* the buffers after a frame with a pose: append the visible wrists, trim
HandTrack(h, ts, pose) ==
    LET cutoff == ts - (HAND_TIME_WINDOW + TRIM_MARGIN)
        left == IF pose.left_visible
                THEN Append(h.left_positions, <<ts, pose.left_y>>) ELSE h.left_positions
        right == IF pose.right_visible
                 THEN Append(h.right_positions, <<ts, pose.right_y>>) ELSE h.right_positions
    IN  [h EXCEPT !.left_positions = SelectSeq(left, LAMBDA p : p[1] >= cutoff),
                  !.right_positions = SelectSeq(right, LAMBDA p : p[1] >= cutoff)]

\* window_detected of extract, on the tracked buffers
HandWindowDetected(h, ts) ==
    Max(HandCountOscillations(h.left_positions, ts),
        HandCountOscillations(h.right_positions, ts)) >= HAND_MIN_OSCILLATIONS

\* the flag is confirmed_windows >= CONFIRM_WINDOWS of the current frame
HandConfirmedAfter_NotSticky(confirmed, windows) ==
    windows >= CONFIRM_WINDOWS

\* hand_stimming_confirmed after an evaluation that left confirmed_windows
HandConfirmedAfter(confirmed, windows) ==
    IF windows >= CONFIRM_WINDOWS THEN TRUE ELSE confirmed

\* extract() up to the warm-up check
HandEnter(h, ts) ==
    [h EXCEPT !.session_start_time = IF @ = None THEN ts ELSE @]

\* extract(image, timestamp): pose = what MediaPipe Pose yields, one of Poses
HandExtract(h, ts, pose) ==
    LET h1 == HandEnter(h, ts)
        h2 == HandTrack(h1, ts, pose)
        windows == IF HandWindowDetected(h2, ts) THEN h2.confirmed_windows + 1
                   ELSE Max(0, h2.confirmed_windows - 1)
    IN  IF ts - h1.session_start_time < HAND_WARM_UP_PERIOD THEN h1
        ELSE IF ~pose.detected THEN h1
        ELSE [h2 EXCEPT !.confirmed_windows = windows,
                        !.hand_stimming_confirmed = HandConfirmedAfter(@, windows)]

\* get_summary()
HandRepSummary(h) ==
    [detected |-> h.hand_stimming_confirmed,
     level |-> IF h.hand_stimming_confirmed THEN "PRESENT" ELSE "ABSENT",
     interpretation |-> IF h.hand_stimming_confirmed
                        THEN "Sustained repetitive hand movements detected"
                        ELSE "No repetitive hand movements detected"]

\* reset()
HandRepReset(h) == HandRepInit

(***************************************************************************)
(* HeadMovementFeature                                                     *)
(***************************************************************************)
HEAD_MOVE_WARMUP == 10000
\* get_summary needs at least 2 recorded head poses
HEAD_MOVE_MIN_SAMPLES == 2
\* avg_movement_per_frame < 0.015 is low, < 0.05 normal (in ten-thousandths)
HEAD_MOVE_LOW == 150
HEAD_MOVE_NORMAL == 500

\* head_pose_history holds (timestamp, nose_tip); the orientation stored with
\* them is never read
HeadMoveInit == [head_pose_history |-> <<>>, session_start_time |-> None]

RECURSIVE ISqrtIn(_, _, _)
\* the largest r in lo .. hi with r * r <= n
ISqrtIn(n, lo, hi) ==
    IF lo >= hi THEN lo
    ELSE LET mid == (lo + hi + 1) \div 2
         IN  IF mid * mid <= n THEN ISqrtIn(n, mid, hi) ELSE ISqrtIn(n, lo, mid - 1)

\* np.linalg.norm(q - p) in ten-thousandths, rounded down (exact for the
\* axis-aligned movements)
Norm4(p, q) == ISqrtIn(100 * MovementSq(p, q), 0, 20000)

RECURSIVE SumMovements(_, _)
\* np.sum(movements) from the i-th recorded pose on
SumMovements(history, i) ==
    IF i >= Len(history) THEN 0
    ELSE Norm4(history[i][2], history[i + 1][2]) + SumMovements(history, i + 1)

\* extract() up to the face-mesh call
HeadMoveEnter(h, ts) ==
    [h EXCEPT !.session_start_time = IF @ = None THEN ts ELSE @]

\* extract(image, timestamp): head = [detected, nose_tip]
HeadMoveExtract(h, ts, head_detected, nose_tip) ==
    LET h1 == HeadMoveEnter(h, ts)
    IN  IF head_detected /\ ts - h1.session_start_time >= HEAD_MOVE_WARMUP
        THEN [h1 EXCEPT !.head_pose_history = Append(@, <<ts, nose_tip>>)]
        ELSE h1

\* get_summary(): has_level tells whether the dictionary holds the key
\* 'level' (the short-history dictionary only holds 'head_movement_level')
HeadMoveSummary(h) ==
    LET n == Len(h.head_pose_history) - 1
        total == SumMovements(h.head_pose_history, 1)
        level == IF total < HEAD_MOVE_LOW * n THEN "low"
                 ELSE IF total < HEAD_MOVE_NORMAL * n THEN "normal"
                 ELSE "high"
    IN  IF Len(h.head_pose_history) < HEAD_MOVE_MIN_SAMPLES
        THEN [head_movement_level |-> "insufficient_data", has_level |-> FALSE,
              level |-> "", has_avg |-> FALSE, avg_movement_per_frame |-> 0,
              total_frames |-> Len(h.head_pose_history)]
        ELSE [head_movement_level |-> level, has_level |-> TRUE,
              level |-> level, has_avg |-> TRUE,
              avg_movement_per_frame |-> Round3(total, 1000 * n),
              total_frames |-> Len(h.head_pose_history)]

\* reset()
HeadMoveReset(h) == HeadMoveInit

(***************************************************************************)
(* ExpressionVariabilityFeature                                            *)
(***************************************************************************)
EXPR_WARMUP == 2000
\* the emotion service is called on every 10th processed frame
EXPR_SAMPLE_EVERY == 10
\* get_summary needs 20 labels
EXPR_MIN_LABELS == 20

\* what a call to the emotion service yields: status 200 with a
\* dominant_emotion (a label, "unknown", or "" when missing), another status,
\* a timeout, a connection error, or any other exception
EmotionLabels == {"happy", "sad"}
ServiceOutcomes ==
    { [kind |-> "ok", emotion |-> l] : l \in EmotionLabels \cup {"unknown", ""} }
    \cup { [kind |-> k, emotion |-> ""] : k \in {"status", "timeout", "connection", "error"} }

\* deepface_available is the outcome of the health check at construction
ExprInit(available) ==
    [deepface_available |-> available, emotion_history |-> <<>>,
     session_start_time |-> None, total_frames_processed |-> 0,
     successful_detections |-> 0]

\* timeouts leave the try block uncaught
ExprCatches_NotTimeout(kind) == kind \in {"connection", "error"}

\* the exceptions the two except clauses catch
ExprCatches(kind) == kind \in {"timeout", "connection", "error"}

\* extract() up to the Haar cascade call
ExprEnter(x, ts) ==
    [x EXCEPT !.session_start_time = IF @ = None THEN ts ELSE @,
              !.total_frames_processed = @ + 1]

\* the frame reaches the call to the emotion service
ExprSamples(x, ts, face) ==
    LET x1 == ExprEnter(x, ts)
    IN  /\ face
        /\ ts - x1.session_start_time >= EXPR_WARMUP
        /\ x1.deepface_available
        /\ x1.total_frames_processed % EXPR_SAMPLE_EVERY = 0

\* the exception extract() lets through, "no" when it returns
ExprRaised(x, ts, face, outcome) ==
    IF ExprSamples(x, ts, face) /\ outcome.kind \in {"timeout", "connection", "error"}
       /\ ~ExprCatches(outcome.kind)
    THEN outcome.kind ELSE "no"

\* any caught exception switches the service off
Disables_AnyException(kind) == kind \in {"timeout", "connection", "error"}

\* if "Connection" in str(e) or "refused" in str(e)
Disables(kind) == kind = "connection"

\* extract(frame, timestamp): face = the Haar cascade found a face, outcome =
\* what the emotion service yields if it is called
ExprExtract(x, ts, face, outcome) ==
    LET x1 == ExprEnter(x, ts)
    IN  IF ~ExprSamples(x, ts, face) THEN x1
        ELSE IF outcome.kind = "ok" THEN
            IF outcome.emotion # "" /\ outcome.emotion # "unknown"
            THEN [x1 EXCEPT !.emotion_history = Append(@, outcome.emotion),
                            !.successful_detections = @ + 1]
            ELSE x1
        ELSE IF Disables(outcome.kind) /\ ExprCatches(outcome.kind)
            THEN [x1 EXCEPT !.deepface_available = FALSE]
        ELSE x1

\* np.log2(n) in millionths, n = 1 .. 24
LOG2 == << 0, 1000000, 1584963, 2000000, 2321928, 2584963, 2807355, 3000000,
           3169925, 3321928, 3459432, 3584963, 3700440, 3807355, 3906891,
           4000000, 4087463, 4169925, 4247928, 4321928, 4392317, 4459432,
           4523562, 4584963 >>

\* occurrences of a label in the history
LabelCount(history, l) == Cardinality({ i \in DOMAIN history : history[i] = l })

RECURSIVE SumCLogC(_, _)
\* sum of count * log2(count) over the labels of ls that occur
SumCLogC(history, ls) ==
    IF ls = {} THEN 0
    ELSE LET l == CHOOSE m \in ls : TRUE
             c == LabelCount(history, l)
         IN  (IF c = 0 THEN 0 ELSE c * LOG2[c]) + SumCLogC(history, ls \ {l})

\* a level as soon as one label is there
EnoughLabels_AtLeastOne(history) == Len(history) >= 1

\* not (len(self.emotion_history) < 20)
EnoughLabels(history) == Len(history) >= EXPR_MIN_LABELS

\* get_summary(): the level follows entropy / log2(number of labels seen),
\* n * entropy = n * log2(n) - sum c * log2(c); one label gives 0 ("low").
\* detection_rate is the fraction <<successful, max(1, frames)>>.
ExprSummary(x) ==
    LET history == x.emotion_history
        n == Len(history)
        k == Cardinality({ history[i] : i \in DOMAIN history })
        nH == n * LOG2[n] - SumCLogC(history, EmotionLabels)
        rate == <<x.successful_detections, Max(1, x.total_frames_processed)>>
    IN  IF ~EnoughLabels(history)
        THEN [variability |-> 0, level |-> "insufficient_data", detection_rate |-> rate]
        ELSE IF k = 1
        THEN [variability |-> 0, level |-> "low", detection_rate |-> rate]
        ELSE [variability |-> Min(1000, (1000 * (nH \div 1000))
                                            \div ((n * LOG2[k]) \div 1000)),
              level |-> IF 2 * nH < n * LOG2[k] THEN "low"
                        ELSE IF 4 * nH < 3 * n * LOG2[k] THEN "moderate"
                        ELSE "high",
              detection_rate |-> rate]

\* reset(): deepface_available is left as it is
ExprReset(x) == ExprInit(x.deepface_available)

(***************************************************************************)
(* VideoFeatureOrchestrator                                                *)
(***************************************************************************)
\* the detectors in the order process_frame calls their extract()
DetectorOrder ==
    << "eye_contact", "blink_rate", "head_movement", "hand_repetition",
       "gesture_detection", "expression_variability" >>
Detectors == { DetectorOrder[i] : i \in DOMAIN DetectorOrder }
Place(d) == CHOOSE i \in DOMAIN DetectorOrder : DetectorOrder[i] = d

\* with detector fail raising ("none": no detector raises), extract() of d
\* returns / is entered
Returns(d, fail) == fail = "none" \/ Place(d) < Place(fail)
Enters(d, fail) == fail = "none" \/ Place(d) <= Place(fail)

\* process_frame up to decode_frame: session start and frame counter
OrchEnter(o, ts) ==
    [o EXCEPT !.session_start_time = IF @ = None THEN ts ELSE @,
              !.frame_count = @ + 1]

\* risk_score = min(len(concerns) / 5.0, 1.0), in thousandths
RISK_DIVISOR == 5
RISK_HIGH == 600
RISK_MODERATE == 400

\* a _clinical_summary_from_flat that reads self.frame_count
ClinicalSummary_ReadsFrameCount(s) ==
    [risk_level |-> "Low",
     risk_score |-> orchestrator.frame_count,
     concerns |-> IF s.hand_stimming.present THEN <<"Hand stimming detected">> ELSE <<>>]

\* _clinical_summary_from_flat(s)
ClinicalSummary(s) ==
    LET concerns ==
            (IF s.eye_contact_level \in {"very_low", "low"}
             THEN <<"Reduced eye contact">> ELSE <<>>)
            \o (IF s.blink_level = "low" THEN <<"Reduced blink rate">> ELSE <<>>)
            \o (IF s.expression_level = "low"
                THEN <<"Restricted facial expressions">> ELSE <<>>)
            \o (IF s.hand_stimming.present THEN <<"Hand stimming detected">> ELSE <<>>)
            \o (IF s.head_movements.repetitive THEN <<"Head stimming detected">> ELSE <<>>)
            \o (IF ~s.social_gestures.present
                THEN <<"Limited social gestures">> ELSE <<>>)
        risk_score == Min(Round3(Len(concerns), RISK_DIVISOR), 1000)
    IN  [risk_level |-> IF risk_score >= RISK_HIGH THEN "High"
                        ELSE IF risk_score >= RISK_MODERATE THEN "Moderate"
                        ELSE "Low",
         risk_score |-> risk_score,
         concerns |-> concerns]

\* the flat dictionary of get_session_summary, before clinical_interpretation
\* is added (the interpretation texts, which follow the levels, are left out)
FlatSummary(duration) ==
    LET eye == EyeSummary(eye_contact)
        blink == BlinkSummary(blink_rate, duration)
        head_move == HeadMoveSummary(head_movement)
        head_rep == HeadRepSummary(head_repetition)
        hand_rep == HandRepSummary(hand_repetition)
        gesture == GestureSummary(gesture_detection, duration)
        expr == ExprSummary(expression_variability)
    IN  [eye_contact_ratio |-> eye.eye_contact_ratio,
         eye_contact_level |-> eye.level,
         blink_rate_per_minute |-> blink.blink_rate_per_minute,
         blink_level |-> blink.level,
         head_movement_avg_per_frame |->
             IF head_move.has_avg THEN head_move.avg_movement_per_frame ELSE 0,
         head_movement_level |->
             IF head_move.has_level THEN head_move.level ELSE "unknown",
         head_movements |-> [present |-> head_rep.detected,
                             repetitive |-> head_rep.detected],
         hand_stimming |-> [present |-> hand_rep.detected,
                            severity |-> IF hand_rep.detected THEN "PRESENT"
                                         ELSE "ABSENT",
                            description |-> hand_rep.interpretation],
         social_gestures |->
             [present |-> Len(gesture_detection.gesture_timestamps) > 0,
              frequency_per_minute |-> gesture.gesture_frequency_per_minute],
         facial_expression_variability |-> expr.variability,
         expression_level |-> expr.level,
         sessionDuration |-> duration,
         totalFrames |-> orchestrator.frame_count,
         data_quality |-> [face_detection_ratio |-> eye.face_detection_ratio,
                           expression_detection_rate |-> expr.detection_rate]]

\* what get_session_summary(duration) yields: the exception of
\* eye_contact.get_summary(), or the summary
SessionSummary(duration) ==
    IF EyeSummaryRaises(eye_contact) THEN [raised |-> "TypeError"]
    ELSE [raised |-> "no",
          summary |-> FlatSummary(duration),
          clinical_interpretation |-> ClinicalSummary(FlatSummary(duration))]

(***************************************************************************)
(* The caller's clock: timestamps are non-decreasing within a session.     *)
(***************************************************************************)
NextTimes(steps) ==
    IF now = None THEN StartTimes ELSE {now + d : d \in steps}

(***************************************************************************)
(* Specification of the blink detector alone                               *)
(***************************************************************************)
\* the orchestrator's own fields after __init__
OrchInit == [frame_count |-> 0, session_start_time |-> None]

\* the engine after construction, as a record of its detectors
SessionInit ==
    [eye_contact |-> EyeInit, blink_rate |-> BlinkInit,
     head_movement |-> HeadMoveInit, hand_repetition |-> HandRepInit,
     gesture_detection |-> GestureInit,
     expression_variability |-> ExprInit(TRUE),
     head_repetition |-> HeadRepInit, orchestrator |-> OrchInit]

\* the second engine: origin is what its timestamps are moved by, chosen with
\* its first frame
ShiftedInit == [origin |-> None, session |-> SessionInit]

\* every detector but the expression detector, after construction
InitDetectors ==
    /\ now = None
    /\ head_movement = HeadMoveInit
    /\ orchestrator = OrchInit
    /\ blink_rate = BlinkInit
    /\ eye_contact = EyeInit
    /\ gesture_detection = GestureInit
    /\ bursts = <<>>
    /\ gesture_twin = GestureInit
    /\ shifted = ShiftedInit
    /\ head_repetition = HeadRepInit
    /\ hand_repetition = HandRepInit
    /\ call = [op |-> "init"]

\* the session starts with the emotion service answering the health check
Init ==
    /\ InitDetectors
    /\ expression_variability = ExprInit(TRUE)

\* the session starts with the emotion service up or down
InitExpr ==
    /\ InitDetectors
    /\ expression_variability \in {ExprInit(a) : a \in BOOLEAN}

BlinkFrame ==
    /\ blink_rate.total_frames < BlinkMaxFrames
    /\ \E ts \in NextTimes(BlinkSteps), ear \in FaceObs :
        /\ now' = ts
        /\ blink_rate' = BlinkExtract(blink_rate, ts, ear # None, ear)
        /\ call' = [op |-> "blink.extract", ear |-> ear,
                    closure |-> IF blink_rate.eye_closed /\ ~blink_rate'.eye_closed
                                THEN ts - blink_rate.blink_start_time ELSE None]
        /\ UNCHANGED <<eye_contact, gesture_detection, bursts, gesture_twin, shifted, head_repetition, hand_repetition,
                     head_movement, expression_variability, orchestrator>>

BlinkDoReset ==
    /\ call.op # "init"
    /\ call.op # "blink.reset"
    /\ now' = None
    /\ blink_rate' = BlinkReset(blink_rate)
    /\ call' = [op |-> "blink.reset"]
    /\ UNCHANGED <<eye_contact, gesture_detection, bursts, gesture_twin, shifted, head_repetition, hand_repetition,
                     head_movement, expression_variability, orchestrator>>

\* get_summary(session_duration_seconds), which assigns to no attribute
BlinkGetSummary ==
    /\ \E duration \in BlinkDurations :
        call' = [op |-> "blink.get_summary", duration |-> duration,
                 result |-> BlinkSummary(blink_rate, duration)]
    /\ UNCHANGED <<now, blink_rate, eye_contact, gesture_detection, bursts, gesture_twin, shifted,
                   head_repetition, hand_repetition, head_movement,
                   expression_variability, orchestrator>>

BlinkNext == BlinkFrame \/ BlinkDoReset \/ BlinkGetSummary

SpecBlink == Init /\ [][BlinkNext]_vars

(***************************************************************************)
(* Specification of the eye-contact detector alone                         *)
(***************************************************************************)
EyeFrame ==
    /\ eye_contact.total_frames < EyeMaxFrames
    /\ \E ts \in NextTimes(EyeSteps), face \in EyeFaces :
        /\ now' = ts
        /\ eye_contact' = EyeExtract(eye_contact, ts, face)
        /\ call' = [op |-> "eye.extract", looking |-> face.detected /\ Looking(face),
                    closed |-> IF eye_contact.current_contact_start # None
                                  /\ eye_contact'.current_contact_start = None
                               THEN ts - eye_contact.current_contact_start ELSE None]
        /\ UNCHANGED <<blink_rate, gesture_detection, bursts, gesture_twin, shifted, head_repetition, hand_repetition,
                     head_movement, expression_variability, orchestrator>>

EyeGetSummary ==
    /\ call.op # "eye.get_summary"
    /\ eye_contact' = IF EyeSummaryRaises(eye_contact) THEN eye_contact
                      ELSE EyeAfterSummary(eye_contact)
    /\ call' = [op |-> "eye.get_summary", result |-> EyeSummary(eye_contact),
                open_for |-> IF eye_contact.current_contact_start # None
                             THEN now - eye_contact.current_contact_start ELSE None]
    /\ UNCHANGED <<now, blink_rate, gesture_detection, bursts, gesture_twin, shifted, head_repetition, hand_repetition,
                     head_movement, expression_variability, orchestrator>>

EyeDoReset ==
    /\ call.op \notin {"init", "eye.reset"}
    /\ now' = None
    /\ eye_contact' = EyeReset(eye_contact)
    /\ call' = [op |-> "eye.reset"]
    /\ UNCHANGED <<blink_rate, gesture_detection, bursts, gesture_twin, shifted, head_repetition, hand_repetition,
                     head_movement, expression_variability, orchestrator>>

EyeNext == EyeFrame \/ EyeGetSummary \/ EyeDoReset

SpecEye == Init /\ [][EyeNext]_vars

(***************************************************************************)
(* Specification of the gesture detector alone                             *)
(***************************************************************************)
\* A movement burst is a maximal run of frames with the hand tracked and
\* moving (above MOVE_THRESHOLD, below GLITCH_LIMIT); a glitch frame is
\* ignored, a still frame or a frame without a hand ends the burst.  bursts
\* records each burst's first and last frame and whether it is still open.
BurstsAfter(bs, g, ts, hand) ==
    LET cur == <<hand.x, hand.y>>
        tracked == hand.detected /\ g.prev_pos # <<None, None>>
        n == Len(bs)
        open == n > 0 /\ bs[n].open
    IN  IF tracked /\ Moving(cur, g.prev_pos)
        THEN IF open THEN [bs EXCEPT ![n].end = ts]
             ELSE Append(bs, [start |-> ts, end |-> ts, open |-> TRUE])
        ELSE IF tracked /\ ~(MovementSq(cur, g.prev_pos) < GLITCH_LIMIT * GLITCH_LIMIT)
        THEN bs
        ELSE IF open THEN [bs EXCEPT ![n].open = FALSE] ELSE bs

GestureFrame ==
    /\ gesture_detection.total_frames < GestureMaxFrames
    /\ \E ts \in NextTimes(GestureSteps), hand \in Hands :
        /\ now' = ts
        /\ gesture_detection' = GestureExtract(gesture_detection, ts, hand)
        /\ bursts' = BurstsAfter(bursts, gesture_detection, ts, hand)
        /\ call' = [op |-> "gesture.extract",
                    detected |-> GestureFires(gesture_detection, ts, hand),
                    hand |-> hand]
        /\ UNCHANGED <<blink_rate, eye_contact, gesture_twin, shifted, head_repetition, hand_repetition,
                     head_movement, expression_variability, orchestrator>>

GestureDoReset ==
    /\ call.op \notin {"init", "gesture.reset"}
    /\ now' = None
    /\ gesture_detection' = GestureReset(gesture_detection)
    /\ bursts' = <<>>
    /\ call' = [op |-> "gesture.reset"]
    /\ UNCHANGED <<blink_rate, eye_contact, gesture_twin, shifted, head_repetition, hand_repetition,
                     head_movement, expression_variability, orchestrator>>

GestureNext == GestureFrame \/ GestureDoReset

SpecGesture == Init /\ [][GestureNext]_vars

(***************************************************************************)
(* Two sessions that differ only in what their warm-up frames show: both   *)
(* gesture detectors get the same timestamps, and the same hand            *)
(* observation on every frame at or after the warm-up.                     *)
(***************************************************************************)
InWarmup(g, ts) ==
    ts - (IF g.session_start_time = None THEN ts ELSE g.session_start_time)
        < GESTURE_WARMUP

WarmupFrame ==
    /\ gesture_detection.total_frames < WarmupMaxFrames
    /\ \E ts \in NextTimes(GestureSteps), hand \in Hands, other \in Hands :
        /\ InWarmup(gesture_detection, ts) \/ other = hand
        /\ now' = ts
        /\ gesture_detection' = GestureExtract(gesture_detection, ts, hand)
        /\ gesture_twin' = GestureExtract(gesture_twin, ts, other)
        /\ call' = [op |-> "gesture.extract",
                    detected |-> GestureFires(gesture_detection, ts, hand)]
        /\ UNCHANGED <<blink_rate, eye_contact, bursts, head_repetition, hand_repetition,
                     head_movement, expression_variability, orchestrator, shifted>>

WarmupNext == WarmupFrame

SpecWarmup == Init /\ [][WarmupNext]_vars

(***************************************************************************)
(* Specification of the two repetition detectors: each frame goes to       *)
(* HandRepetitionFeature.extract and, when it holds a head pose, its nose  *)
(* tip to HeadRepetitionFeature.add_position, as process_frame does; the   *)
(* head window is evaluated by extract_from_window at any time.            *)
(***************************************************************************)
OthersOfRep == <<blink_rate, eye_contact, gesture_detection, bursts, gesture_twin, shifted,
                 head_movement, expression_variability, orchestrator>>

\* call of a repetition session: frames counts the session's frames, and
\* evaluated tells whether the last frame reached the hand detector's
\* dominance logic (past the warm-up, with a pose)
RepIdle == [op |-> "rep.idle", frames |-> 0, evaluated |-> FALSE]
RepCall == IF call.op \in {"init", "rep.reset"} THEN RepIdle ELSE call
RepTimes == IF now = None THEN RepStartTimes ELSE {now + d : d \in RepSteps}

RepFrame ==
    /\ RepCall.frames < RepMaxFrames
    /\ \E ts \in RepTimes, frame \in RepFrames :
        /\ now' = ts
        /\ hand_repetition' = HandExtract(hand_repetition, ts, frame.pose)
        /\ head_repetition' =
               IF frame.head_detected
               THEN HeadAddPosition(head_repetition, frame.nose_tip, ts)
               ELSE head_repetition
        /\ call' = [op |-> "rep.frame",
                    frames |-> RepCall.frames + 1,
                    evaluated |-> frame.pose.detected
                        /\ ts - HandEnter(hand_repetition, ts).session_start_time
                               >= HAND_WARM_UP_PERIOD]
        /\ UNCHANGED OthersOfRep

RepHeadWindow ==
    /\ RepCall.frames > 0
    /\ HeadExtractFromWindow(head_repetition).accumulated_stimming_time
           <= RepMaxWindows * HEAD_TIME_WINDOW
    /\ head_repetition' = HeadExtractFromWindow(head_repetition)
    /\ call' = [RepCall EXCEPT !.op = "rep.extract_from_window"]
    /\ UNCHANGED <<now, hand_repetition, OthersOfRep>>

RepReset ==
    /\ call.op \notin {"init", "rep.reset"}
    /\ now' = None
    /\ head_repetition' = HeadRepReset(head_repetition)
    /\ hand_repetition' = HandRepReset(hand_repetition)
    /\ call' = [op |-> "rep.reset"]
    /\ UNCHANGED OthersOfRep

RepNext == RepFrame \/ RepHeadWindow \/ RepReset

SpecRep == Init /\ [][RepNext]_vars

(***************************************************************************)
(* Specification of the expression detector alone                          *)
(***************************************************************************)
OthersOfExpr == <<blink_rate, eye_contact, gesture_detection, bursts, gesture_twin, shifted,
                  head_repetition, hand_repetition, head_movement, orchestrator>>

\* call of an expression session: sampled counts the calls made to the
\* emotion service, timeouts those that timed out, raised is the exception
\* the last extract() let through
\* constructed is deepface_available as the constructor left it
ExprIdle == [op |-> "expr.idle", sampled |-> 0, timeouts |-> 0, raised |-> "no",
             constructed |-> TRUE]
ExprCall ==
    IF call.op = "init"
    THEN [ExprIdle EXCEPT !.constructed = expression_variability.deepface_available]
    ELSE IF call.op = "expr.reset"
    THEN [ExprIdle EXCEPT !.constructed = call.constructed]
    ELSE call
ExprTimes == IF now = None THEN ExprStartTimes ELSE {now + d : d \in ExprSteps}

\* the outcomes that make a difference on this frame
ExprOutcomes(ts, face) ==
    IF ExprSamples(expression_variability, ts, face) THEN ServiceOutcomes
    ELSE {[kind |-> "status", emotion |-> ""]}

ExprFrame ==
    /\ expression_variability.total_frames_processed < ExprMaxFrames
    /\ \E ts \in ExprTimes, face \in BOOLEAN :
        \E outcome \in ExprOutcomes(ts, face) :
        LET sampled == ExprSamples(expression_variability, ts, face)
        IN  /\ now' = ts
            /\ expression_variability' =
                   ExprExtract(expression_variability, ts, face, outcome)
            /\ call' = [op |-> "expr.extract",
                        sampled |-> ExprCall.sampled + (IF sampled THEN 1 ELSE 0),
                        timeouts |-> ExprCall.timeouts
                            + (IF sampled /\ outcome.kind = "timeout" THEN 1 ELSE 0),
                        raised |-> ExprRaised(expression_variability, ts, face, outcome),
                        constructed |-> ExprCall.constructed,
                        outcome |-> IF sampled THEN outcome.kind ELSE "none"]
            /\ UNCHANGED OthersOfExpr

ExprDoReset ==
    /\ call.op \notin {"init", "expr.reset"}
    /\ now' = None
    /\ expression_variability' = ExprReset(expression_variability)
    /\ call' = [op |-> "expr.reset", constructed |-> ExprCall.constructed]
    /\ UNCHANGED OthersOfExpr

ExprNext == ExprFrame \/ ExprDoReset

SpecExpr == InitExpr /\ [][ExprNext]_vars

(***************************************************************************)
(* Specification of the orchestrator: frames are processed, the session    *)
(* summary is asked for, the session is reset.                             *)
(***************************************************************************)
OrchTimes == IF now = None THEN OrchStartTimes ELSE {now + d : d \in OrchSteps}

\* frames of the session on which a detector raised
OrchFailures == IF "failures" \in DOMAIN call THEN call.failures ELSE 0

\* some frame of the session so far showed a face, a head, a hand or a pose
OrchSeen == IF "seen" \in DOMAIN call THEN call.seen ELSE FALSE
Shows(f) ==
    /\ f.decodable
    /\ f.face.detected \/ f.head_detected \/ f.hand.detected \/ f.pose.detected
          \/ f.haar_face

\* hand_repetition.extract reaches pose.process: past its warm-up
HandCallsPose(h, ts) ==
    ts - HandEnter(h, ts).session_start_time >= HAND_WARM_UP_PERIOD

\* the detector that raises on the frame, "none" when none does
Raising(input, ts) ==
    IF input.fail = "hand_repetition" /\ ~HandCallsPose(hand_repetition, ts) THEN "none"
    ELSE IF input.fail = "none"
            /\ ExprRaised(expression_variability, ts, input.frame.haar_face,
                          input.frame.outcome) # "no"
         THEN "expression_variability"
    ELSE input.fail

\* process_frame(base64_frame, None)
ProcessFrameNoTimestamp ==
    /\ ~(call.op = "process_frame" /\ call.raised = "ValueError")
    /\ call' = [op |-> "process_frame", failures |-> OrchFailures,
                raised |-> "ValueError", consumed |-> {}, seen |-> OrchSeen]
    /\ UNCHANGED <<now, blink_rate, eye_contact, gesture_detection, bursts, gesture_twin, shifted,
                   head_repetition, hand_repetition, head_movement,
                   expression_variability, orchestrator>>

\* process_frame(base64_frame, timestamp)
ProcessFrame ==
    /\ orchestrator.frame_count < OrchMaxFrames
    /\ \E ts \in OrchTimes, input \in FrameInputs :
        LET f == input.frame
            fail == Raising(input, ts)
        IN  /\ input.fail # "none" => OrchFailures < OrchMaxFailures
            /\ now' = ts
            /\ orchestrator' = OrchEnter(orchestrator, ts)
            /\ IF ~f.decodable
               THEN /\ call' = [op |-> "process_frame", failures |-> OrchFailures,
                                raised |-> "decode_frame", consumed |-> {},
                                seen |-> OrchSeen]
                    /\ UNCHANGED <<blink_rate, eye_contact, gesture_detection,
                                   head_repetition, hand_repetition, head_movement,
                                   expression_variability>>
               ELSE /\ eye_contact' =
                           IF Returns("eye_contact", fail)
                           THEN EyeExtract(eye_contact, ts, f.face)
                           ELSE EyeEnter(eye_contact, ts)
                    /\ blink_rate' =
                           IF Returns("blink_rate", fail)
                           THEN BlinkExtract(blink_rate, ts, f.face.detected, f.face.ear)
                           ELSE IF Enters("blink_rate", fail)
                           THEN BlinkEnter(blink_rate, ts) ELSE blink_rate
                    /\ head_movement' =
                           IF Returns("head_movement", fail)
                           THEN HeadMoveExtract(head_movement, ts, f.head_detected, f.nose_tip)
                           ELSE IF Enters("head_movement", fail)
                           THEN HeadMoveEnter(head_movement, ts) ELSE head_movement
                    /\ hand_repetition' =
                           IF Returns("hand_repetition", fail)
                           THEN HandExtract(hand_repetition, ts, f.pose)
                           ELSE IF Enters("hand_repetition", fail)
                           THEN HandEnter(hand_repetition, ts) ELSE hand_repetition
                    /\ gesture_detection' =
                           IF Returns("gesture_detection", fail)
                           THEN GestureExtract(gesture_detection, ts, f.hand)
                           ELSE IF Enters("gesture_detection", fail)
                           THEN GestureEnter(gesture_detection, ts) ELSE gesture_detection
                    /\ expression_variability' =
                           IF Returns("expression_variability", fail)
                           THEN ExprExtract(expression_variability, ts, f.haar_face, f.outcome)
                           ELSE IF Enters("expression_variability", fail)
                           THEN ExprEnter(expression_variability, ts)
                           ELSE expression_variability
                    /\ head_repetition' =
                           IF fail = "none" /\ f.head_detected
                           THEN HeadAddPosition(head_repetition, f.nose_tip, ts)
                           ELSE head_repetition
                    /\ call' = [op |-> "process_frame",
                                failures |-> OrchFailures + (IF fail = "none" THEN 0 ELSE 1),
                                raised |-> IF fail = "none" THEN "no" ELSE fail,
                                consumed |-> { d \in Detectors : Enters(d, fail) },
                                seen |-> OrchSeen \/ Shows(f)]
            /\ UNCHANGED <<bursts, gesture_twin, shifted>>

\* get_session_summary(session_duration_seconds)
GetSessionSummary ==
    \E duration \in Durations :
        LET again == call.op = "get_session_summary"
        IN  /\ again => ~call.repeat
            /\ eye_contact' = IF EyeSummaryRaises(eye_contact) THEN eye_contact
                              ELSE EyeAfterSummary(eye_contact)
            /\ call' = [op |-> "get_session_summary", failures |-> OrchFailures,
                        raised |-> SessionSummary(duration).raised,
                        duration |-> duration,
                        result |-> SessionSummary(duration),
                        repeat |-> again /\ call.duration = duration,
                        open_before |-> IF again THEN call.open_before
                                        ELSE eye_contact.current_contact_start # None,
                        seen |-> OrchSeen]
            /\ UNCHANGED <<now, blink_rate, gesture_detection, bursts, gesture_twin, shifted,
                           head_repetition, hand_repetition, head_movement,
                           expression_variability, orchestrator>>

\* reset()
Reset ==
    /\ call.op \notin {"init", "reset"}
    /\ now' = None
    /\ eye_contact' = EyeReset(eye_contact)
    /\ blink_rate' = BlinkReset(blink_rate)
    /\ head_movement' = HeadMoveReset(head_movement)
    /\ head_repetition' = HeadRepReset(head_repetition)
    /\ hand_repetition' = HandRepReset(hand_repetition)
    /\ gesture_detection' = GestureReset(gesture_detection)
    /\ expression_variability' = ExprReset(expression_variability)
    /\ orchestrator' = OrchInit
    /\ call' = [op |-> "reset"]
    /\ UNCHANGED <<bursts, gesture_twin, shifted>>

Next == ProcessFrameNoTimestamp \/ ProcessFrame \/ GetSessionSummary \/ Reset

Spec == Init /\ [][Next]_vars

(***************************************************************************)
(* C1                                                                      *)
(***************************************************************************)
BlinkCount == Len(blink_rate.blink_timestamps)

\* C1: on a closed-to-open transition (eye_closed goes from TRUE to FALSE in
\* an extract call) the blink count grows by one if and only if the closure
\* duration, the opening frame's timestamp minus blink_start_time, lies in
\* [60 ms, 400 ms], and otherwise stays; in particular a 50 ms closure adds
\* nothing, a 100 ms closure adds exactly one blink, a 500 ms closure adds
\* nothing.  No other extract call changes the blink count.
C1_BlinkDurationGate ==
    [][ call'.op = "blink.extract" =>
          LET opened == blink_rate.eye_closed /\ ~blink_rate'.eye_closed
              duration == now' - blink_rate.blink_start_time
              added == Len(blink_rate'.blink_timestamps) - BlinkCount
          IN  /\ added \in {0, 1}
              /\ added = 1 <=> (opened /\ 60 <= duration /\ duration <= 400)
              /\ added = 1 => blink_rate'.blink_timestamps = Append(blink_rate.blink_timestamps, now')
              /\ opened /\ duration = 50 => added = 0
              /\ opened /\ duration = 100 => added = 1
              /\ opened /\ duration = 500 => added = 0
      ]_vars

\* the eyes have just reopened after a 100 ms closure, which was counted
C1_Witness ==
    /\ call.op = "blink.extract"
    /\ call.closure = 100
    /\ BlinkCount = 1
    /\ blink_rate.blink_timestamps[1] = now

(***************************************************************************)
(* C2, C3                                                                  *)
(***************************************************************************)
\* C2: every summary get_summary returns has 0 <= eye_contact_ratio <= 1
\* (the ratio is in thousandths).
C2_RatioWithinUnit ==
    (call.op = "eye.get_summary" /\ call.result.raised = "no")
        => (0 <= call.result.eye_contact_ratio /\ call.result.eye_contact_ratio <= 1000)

\* C3: the ratio get_summary returns is the sum of the retained segments'
\* durations divided by the session's duration (the last frame's timestamp
\* minus the session start), whatever the number of frames in the session.
C3_RatioIsTimeOverDuration ==
    (/\ call.op = "eye.get_summary"
     /\ call.result.raised = "no"
     /\ now - eye_contact.session_start_time > 0)
        => call.result.eye_contact_ratio =
               Round3(SumDurations(eye_contact.eye_contact_segments),
                      now - eye_contact.session_start_time)

(***************************************************************************)
(* C4                                                                      *)
(***************************************************************************)
GestureCount == Len(gesture_detection.gesture_timestamps)

\* a burst that began after the warm-up and lasted at least PERSISTENCE_TIME
Persisted(b) ==
    /\ b.start - gesture_detection.session_start_time >= 2000
    /\ b.end - b.start >= 200

\* C4 as stated: of two movement bursts after the warm-up, each above the
\* movement threshold for at least PERSISTENCE_TIME, exactly one gesture is
\* counted when the second begins less than COOLDOWN_TIME after the first
\* ended, and exactly two when it begins more than COOLDOWN_TIME after.
C4_TwoBurstsBySeparation ==
    (Len(bursts) = 2 /\ Persisted(bursts[1]) /\ Persisted(bursts[2]))
        => /\ bursts[2].start - bursts[1].end < 700 => GestureCount = 1
           /\ bursts[2].start - bursts[1].end > 700 => GestureCount = 2

\* C4, amended: the cooldown runs from the time a gesture was counted.  Of
\* two persisted bursts after the warm-up, the first yields a gesture at the
\* first frame it has lasted PERSISTENCE_TIME; if the first burst ends within
\* COOLDOWN_TIME of that gesture, then exactly one gesture is counted as long
\* as the second burst ends within COOLDOWN_TIME of it, a second gesture is
\* counted once the second burst lasts beyond that, and exactly two are
\* counted if the second burst ends within COOLDOWN_TIME of the second.
C4_TwoBurstsByTrigger ==
    (Len(bursts) = 2 /\ Persisted(bursts[1]) /\ Persisted(bursts[2]))
        => LET g == gesture_detection.gesture_timestamps
               b1 == bursts[1]
               b2 == bursts[2]
           IN  /\ GestureCount >= 1
               /\ b1.start + 200 <= g[1] /\ g[1] <= b1.end
               /\ b1.end - g[1] <= 700 =>
                    /\ b2.end - g[1] <= 700 => GestureCount = 1
                    /\ b2.end - g[1] > 700 =>
                         /\ GestureCount >= 2
                         /\ g[2] > g[1] + 700 /\ g[2] >= b2.start + 200 /\ g[2] <= b2.end
                         /\ b2.end - g[2] <= 700 => GestureCount = 2

\* two persisted bursts, the second over and begun within COOLDOWN_TIME of the
\* first one's end, and outlasting the cooldown of the first gesture: two gestures
C4_Witness ==
    /\ Len(bursts) = 2 /\ Persisted(bursts[1]) /\ Persisted(bursts[2])
    /\ ~bursts[2].open
    /\ bursts[2].start - bursts[1].end < 700
    /\ bursts[2].end - gesture_detection.gesture_timestamps[1] > 700
    /\ GestureCount = 2

(***************************************************************************)
(* C7                                                                      *)
(***************************************************************************)
\* C7: frames inside the warm-up never contribute to a detector's final
\* counters: while every frame so far lies inside the warm-up no gesture is
\* counted, and two sessions that differ only in the observations of their
\* warm-up frames have the same gesture events, hence the same summary.
C7_WarmupFramesDoNotCount ==
    /\ (now # None /\ InWarmup(gesture_detection, now)) => GestureCount = 0
    /\ gesture_detection.gesture_timestamps = gesture_twin.gesture_timestamps
    /\ \A d \in {1000, 3000, 60000} :
         GestureSummary(gesture_detection, d) = GestureSummary(gesture_twin, d)

(***************************************************************************)
(* C5                                                                      *)
(***************************************************************************)
\* C5: once head_stimming_confirmed or hand_stimming_confirmed is true, every
\* later frame and window evaluation leaves it true, and get_summary reports
\* it as detected, whatever the frame or the window holds; only reset()
\* clears it.
C5_ConfirmationIsSticky ==
    [][ call'.op # "rep.reset" =>
          /\ hand_repetition.hand_stimming_confirmed =>
                /\ hand_repetition'.hand_stimming_confirmed
                /\ HandRepSummary(hand_repetition').detected
          /\ head_repetition.head_stimming_confirmed =>
                /\ head_repetition'.head_stimming_confirmed
                /\ HeadRepSummary(head_repetition').detected ]_vars

\* both flags are set; the hand detector has since evaluated a window that
\* did not qualify (its counter is back under CONFIRM_WINDOWS), and the head
\* window just evaluated held enough positions and did not qualify
C5_Witness ==
    /\ call.op = "rep.extract_from_window"
    /\ head_repetition.head_stimming_confirmed
    /\ Len(head_repetition.head_positions) >= HEAD_MIN_SAMPLES
    /\ ~HeadWindowValid(head_repetition)
    /\ hand_repetition.hand_stimming_confirmed
    /\ hand_repetition.confirmed_windows < CONFIRM_WINDOWS
    /\ HandRepSummary(hand_repetition).detected

(***************************************************************************)
(* C8                                                                      *)
(***************************************************************************)
\* C8: while every call made to the emotion service in the session has timed
\* out, extract() lets no exception through and the summary's level is
\* insufficient_data.
C8_TimeoutsDegradeGracefully ==
    (call.op = "expr.extract" /\ call.timeouts = call.sampled) =>
        /\ call.raised = "no"
        /\ ExprSummary(expression_variability).level = "insufficient_data"

\* two calls were made to the service and both timed out
C8_Witness ==
    /\ call.op = "expr.extract"
    /\ call.sampled >= 2
    /\ call.timeouts = call.sampled
    /\ call.raised = "no"
    /\ expression_variability.deepface_available
    /\ ExprSummary(expression_variability).level = "insufficient_data"

(***************************************************************************)
(* C6                                                                      *)
(***************************************************************************)
\* C6: a call of get_session_summary that directly follows another one with
\* the same duration yields the same outcome as that one.
C6_SummaryIsIdempotent ==
    [][ (/\ call.op = "get_session_summary"
         /\ call'.op = "get_session_summary"
         /\ call'.duration = call.duration)
        => call'.result = call.result ]_vars

\* a second call with the same duration has returned a summary, and an
\* eye-contact segment was open when the first was made
C6_Witness ==
    /\ call.op = "get_session_summary"
    /\ call.repeat
    /\ call.open_before
    /\ call.raised = "no"
    /\ eye_contact.current_contact_start = None

(***************************************************************************)
(* C9                                                                      *)
(***************************************************************************)
\* C9: get_session_summary returns a summary and raises nothing, whatever
\* the session has gone through.
C9_SummaryNeverRaises ==
    call.op = "get_session_summary" => call.raised = "no"

(***************************************************************************)
(* C10                                                                     *)
(***************************************************************************)
\* C10: when a detector raises on a frame, every other detector has still
\* been given that frame by the time process_frame ends.
C10_FailureIsIsolated ==
    (call.op = "process_frame" /\ call.raised \in Detectors) =>
        Detectors \ {call.raised} \subseteq call.consumed

(***************************************************************************)
(* C11                                                                     *)
(***************************************************************************)
\* C11: a frame whose image does not decode leaves the orchestrator's
\* frame_count and session_start_time as they were before the call.
C11_MalformedFrameLeavesNoTrace ==
    [][ (call'.op = "process_frame" /\ call'.raised = "decode_frame")
        => orchestrator' = orchestrator ]_vars

(***************************************************************************)
(* C12                                                                     *)
(***************************************************************************)
\* the session start times of the seven detectors
DetectorStarts ==
    { eye_contact.session_start_time, blink_rate.session_start_time,
      head_movement.session_start_time, hand_repetition.session_start_time,
      gesture_detection.session_start_time,
      expression_variability.session_start_time,
      head_repetition.session_start_time }

\* C12: once process_frame has returned from a frame, every detector's
\* session_start_time is the orchestrator's, the timestamp of the first frame
\* of the session.
C12_OneSessionStart ==
    (call.op = "process_frame" /\ call.raised = "no") =>
        DetectorStarts = {orchestrator.session_start_time}

(***************************************************************************)
(* C13                                                                     *)
(***************************************************************************)
\* C13: reset() leaves the expression detector in the state its constructor
\* left it in.
C13_ResetRestoresInitialState ==
    call.op = "expr.reset" =>
        expression_variability = ExprInit(call.constructed)

(***************************************************************************)
(* Specification of the clinical interpretation alone: the method applied  *)
(* to flat summaries, between frames that move the orchestrator's state    *)
(***************************************************************************)
ClinicalMaxFrames == 2
ClinicalSteps == {200}

\* the keys _clinical_summary_from_flat reads, over the levels the detectors'
\* get_summary methods produce
FlatInputs ==
    [eye_contact_level : {"very_low", "low", "moderate", "high"},
     blink_level : {"low", "normal", "high", "insufficient_data"},
     expression_level : {"low", "moderate", "high", "insufficient_data"},
     hand_stimming : [present : BOOLEAN],
     head_movements : [repetitive : BOOLEAN],
     social_gestures : [present : BOOLEAN]]

\* the method is called on s; at is the frame count it was called at, and
\* again says the previous call had the same s at another frame count
ClinicalApply ==
    \E s \in FlatInputs :
        /\ call' = [op |-> "clinical", input |-> s, result |-> ClinicalSummary(s),
                    at |-> orchestrator.frame_count,
                    again |-> IF call.op = "clinical"
                              THEN call.input = s /\ call.at # orchestrator.frame_count
                              ELSE FALSE]
        /\ UNCHANGED <<now, blink_rate, eye_contact, gesture_detection, bursts,
                       head_repetition, hand_repetition, head_movement,
                       expression_variability, orchestrator, gesture_twin, shifted>>

\* process_frame up to decode_frame, on an image that does not decode
ClinicalFrame ==
    /\ orchestrator.frame_count < ClinicalMaxFrames
    /\ \E ts \in (IF now = None THEN OrchStartTimes ELSE {now + d : d \in ClinicalSteps}) :
        /\ now' = ts
        /\ orchestrator' = OrchEnter(orchestrator, ts)
    /\ UNCHANGED <<blink_rate, eye_contact, gesture_detection, bursts,
                   head_repetition, hand_repetition, head_movement,
                   expression_variability, gesture_twin, shifted, call>>

ClinicalNext == ClinicalApply \/ ClinicalFrame

SpecClinical == Init /\ [][ClinicalNext]_vars

TotalPossibleConcerns ==
    CHOOSE n \in 0..12 :
        /\ \E s \in FlatInputs : Len(ClinicalSummary(s).concerns) = n
        /\ \A s \in FlatInputs : Len(ClinicalSummary(s).concerns) <= n

\* C15: risk_score is the number of concerns raised divided by the number of
\* concern rules evaluated, lies in [0, 1], and risk_level is High from 0.6,
\* Moderate from 0.4 and Low below.
C15_RiskScoreIsShareOfRules ==
    call.op = "clinical" =>
        LET r == call.result IN
        /\ r.risk_score = Round3(Len(r.concerns), TotalPossibleConcerns)
        /\ r.risk_score \in 0..1000
        /\ r.risk_level = IF r.risk_score >= 600 THEN "High"
                          ELSE IF r.risk_score >= 400 THEN "Moderate"
                          ELSE "Low"

(***************************************************************************)
(* Specification of the three detectors that buffer position samples, fed  *)
(* as process_frame feeds them                                             *)
(***************************************************************************)
BufMaxFrames == 5
BufStartTimes == {0}
BufSteps == {300, 6000}

\* frames counts the frames fed; tracked says the last frame reached the
\* hand detector's buffers (a pose, past the warm-up)
BufCall == IF call.op = "init" THEN [op |-> "buf.idle", frames |-> 0, tracked |-> FALSE]
           ELSE call

\* process_frame's calls of head_movement.extract, hand_repetition.extract
\* and head_repetition.add_position
BufFrame ==
    /\ BufCall.frames < BufMaxFrames
    /\ \E ts \in (IF now = None THEN BufStartTimes ELSE {now + d : d \in BufSteps}),
          frame \in RepFrames :
        /\ now' = ts
        /\ head_movement' =
               HeadMoveExtract(head_movement, ts, frame.head_detected, frame.nose_tip)
        /\ hand_repetition' = HandExtract(hand_repetition, ts, frame.pose)
        /\ head_repetition' =
               IF frame.head_detected
               THEN HeadAddPosition(head_repetition, frame.nose_tip, ts)
               ELSE head_repetition
        /\ call' = [op |-> "buf.frame", frames |-> BufCall.frames + 1,
                    tracked |-> frame.pose.detected
                        /\ ts - HandEnter(hand_repetition, ts).session_start_time
                               >= HAND_WARM_UP_PERIOD]
    /\ UNCHANGED <<blink_rate, eye_contact, gesture_detection, bursts,
                   expression_variability, orchestrator, gesture_twin, shifted>>

BufNext == BufFrame

SpecBuffers == Init /\ [][BufNext]_vars

(***************************************************************************)
(* C16                                                                     *)
(***************************************************************************)
\* every sample of the buffer is at most window old
Within(buffer, window) ==
    \A i \in DOMAIN buffer : buffer[i][1] >= now - window

\* C16: after every update each buffer of position samples holds only samples
\* inside its detector's time window: TIME_WINDOW plus the trim margin for
\* head_positions, left_positions and right_positions, and for
\* head_pose_history, whose class names no window, its one time constant
\* (the warm-up, the longest of all).
C16_BuffersHoldOnlyTheWindow ==
    call.op = "buf.frame" =>
        /\ Within(head_repetition.head_positions, HEAD_TIME_WINDOW + TRIM_MARGIN)
        /\ call.tracked =>
              /\ Within(hand_repetition.left_positions, HAND_TIME_WINDOW + TRIM_MARGIN)
              /\ Within(hand_repetition.right_positions, HAND_TIME_WINDOW + TRIM_MARGIN)
        /\ Within(head_movement.head_pose_history, HEAD_MOVE_WARMUP)


(***************************************************************************)
(* Specification of the head-repetition detector as the orchestrator       *)
(* drives it: add_position from process_frame, get_summary from            *)
(* get_session_summary                                                     *)
(***************************************************************************)
HeadSessionMaxFrames == 16
HeadSessionStartTimes == {0}
HeadSessionSteps == {280}
\* head_pose of a frame: no head, or the nose tip (x, y) in thousandths
HeadPoses ==
    { [detected |-> FALSE, nose_tip |-> <<0, 0>>],
      [detected |-> TRUE, nose_tip |-> <<500, 500>>],
      [detected |-> TRUE, nose_tip |-> <<530, 500>>] }

\* frames counts the frames fed, qualifying the frames after which the
\* buffered window had enough samples and oscillations (window_valid)
HeadSessionCall ==
    IF call.op = "init" THEN [op |-> "head.idle", frames |-> 0, qualifying |-> 0]
    ELSE [op |-> call.op, frames |-> call.frames, qualifying |-> call.qualifying]

\* process_frame: if head_pose.get("detected"): add_position(...)
HeadSessionFrame ==
    /\ HeadSessionCall.frames < HeadSessionMaxFrames
    /\ \E ts \in (IF now = None THEN HeadSessionStartTimes
                  ELSE {now + d : d \in HeadSessionSteps}),
          head_pose \in HeadPoses :
        LET after == IF head_pose.detected
                     THEN HeadAddPosition(head_repetition, head_pose.nose_tip, ts)
                     ELSE head_repetition
        IN  /\ now' = ts
            /\ head_repetition' = after
            /\ call' = [op |-> "head.frame",
                        frames |-> HeadSessionCall.frames + 1,
                        qualifying |-> HeadSessionCall.qualifying
                            + (IF head_pose.detected /\ HeadWindowValid(after)
                               THEN 1 ELSE 0)]
    /\ UNCHANGED <<blink_rate, eye_contact, gesture_detection, bursts,
                   hand_repetition, head_movement, expression_variability,
                   orchestrator, gesture_twin, shifted>>

\* get_session_summary: head_rep = self.head_repetition.get_summary()
HeadSessionSummary ==
    /\ HeadSessionCall.frames > 0
    /\ call' = [op |-> "head.summary",
                frames |-> HeadSessionCall.frames,
                qualifying |-> HeadSessionCall.qualifying,
                repetitive |-> HeadRepSummary(head_repetition).detected]
    /\ UNCHANGED <<now, blink_rate, eye_contact, gesture_detection, bursts,
                   head_repetition, hand_repetition, head_movement,
                   expression_variability, orchestrator, gesture_twin, shifted>>

HeadSessionNext == HeadSessionFrame \/ HeadSessionSummary

SpecHeadSession == Init /\ [][HeadSessionNext]_vars

(***************************************************************************)
(* C17                                                                     *)
(***************************************************************************)
\* C17: a session fed through process_frame in which the head window
\* qualified after enough frames for TIME_WINDOW per qualifying evaluation to
\* reach MIN_TOTAL_TIME is summarised with head_movements.repetitive = true.
C17_SustainedOscillationIsReported ==
    (call.op = "head.summary"
        /\ call.qualifying * HEAD_TIME_WINDOW >= MIN_TOTAL_TIME)
    => call.repetitive

C19_TooFewSamplesIsInsufficientData ==
    (call.op = "get_session_summary" /\ call.raised = "no"
        /\ Len(head_movement.head_pose_history) < HEAD_MOVE_MIN_SAMPLES)
    => call.result.summary.head_movement_level = "insufficient_data"

(***************************************************************************)
(* C20                                                                     *)
(***************************************************************************)
\* C20: an extract call closes the eye only on an EAR below EYE_CLOSED_EAR
\* (0.16) and reopens it only on an EAR above EYE_OPEN_EAR (0.21); a sample
\* with an EAR from 0.16 to 0.21 leaves eye_closed, blink_start_time and the
\* blink count as they were.
C20_BlinkHysteresis ==
    [][ call'.op = "blink.extract" =>
          /\ (~blink_rate.eye_closed /\ blink_rate'.eye_closed)
                => (call'.ear # None /\ call'.ear < 16)
          /\ (blink_rate.eye_closed /\ ~blink_rate'.eye_closed)
                => (call'.ear # None /\ call'.ear > 21)
          /\ (call'.ear # None /\ 16 <= call'.ear /\ call'.ear <= 21)
                => /\ blink_rate'.eye_closed = blink_rate.eye_closed
                   /\ blink_rate'.blink_start_time = blink_rate.blink_start_time
                   /\ blink_rate'.blink_timestamps = blink_rate.blink_timestamps
      ]_vars

\* the eye closed on an earlier frame, and a sample of 0.18 has left it closed
C20_Witness ==
    /\ call.op = "blink.extract"
    /\ call.ear = 18
    /\ blink_rate.eye_closed
    /\ blink_rate.blink_start_time # None
    /\ blink_rate.blink_start_time < now

(***************************************************************************)
(* C21                                                                     *)
(***************************************************************************)
\* C21: the one open dwell (current_contact_start) is closed by the first
\* extract call whose frame has no face or is not looking; that call records
\* the dwell if it lasted at least 1.0 s and drops it otherwise, no other
\* extract call touches the recorded segments, and every recorded segment
\* has end - start >= 1.0 s.
C21_DwellSegments ==
    [][ /\ \A i \in DOMAIN eye_contact'.eye_contact_segments :
              eye_contact'.eye_contact_segments[i][2]
                  - eye_contact'.eye_contact_segments[i][1] >= 1000
        /\ call'.op = "eye.extract" =>
              LET start == eye_contact.current_contact_start
                  closes == start # None /\ ~call'.looking
              IN  /\ closes => eye_contact'.current_contact_start = None
                  /\ eye_contact'.eye_contact_segments =
                        IF closes /\ now' - start >= 1000
                        THEN Append(eye_contact.eye_contact_segments, <<start, now'>>)
                        ELSE eye_contact.eye_contact_segments
                  /\ (start # None /\ call'.looking)
                        => eye_contact'.current_contact_start = start
      ]_vars

\* a dwell of 0.5 s has just been closed by a frame that is not looking, and
\* dropped, after an earlier dwell was recorded
C21_Witness ==
    /\ call.op = "eye.extract"
    /\ ~call.looking
    /\ call.closed = 500
    /\ eye_contact.current_contact_start = None
    /\ Len(eye_contact.eye_contact_segments) = 1

C23_GesturesApartByCooldown ==
    \A i, j \in DOMAIN gesture_detection.gesture_timestamps :
        i < j => gesture_detection.gesture_timestamps[j]
                    - gesture_detection.gesture_timestamps[i] > 700

\* two gestures 0.9 s apart out of one uninterrupted burst of movement
C23_Witness ==
    /\ GestureCount = 2
    /\ Len(bursts) = 1
    /\ gesture_detection.gesture_timestamps[2]
          - gesture_detection.gesture_timestamps[1] = 900

(***************************************************************************)
(* C24                                                                     *)
(***************************************************************************)
\* the frame's hand is tracked and has moved GLITCH_LIMIT or more
Glitch(g, hand) ==
    /\ hand.detected
    /\ g.prev_pos # <<None, None>>
    /\ MovementSq(<<hand.x, hand.y>>, g.prev_pos) >= GLITCH_LIMIT * GLITCH_LIMIT

\* C24: a frame whose movement since the previous frame is a glitch jump
\* emits no gesture and leaves gesture_start_time, last_trigger_time,
\* gesture_timestamps and prev_pos as they were.
C24_GlitchFrameIsDiscarded ==
    [][ (call'.op = "gesture.extract" /\ Glitch(gesture_detection, call'.hand)) =>
          /\ ~call'.detected
          /\ gesture_detection'.gesture_start_time = gesture_detection.gesture_start_time
          /\ gesture_detection'.last_trigger_time = gesture_detection.last_trigger_time
          /\ gesture_detection'.gesture_timestamps = gesture_detection.gesture_timestamps
          /\ gesture_detection'.prev_pos = gesture_detection.prev_pos
      ]_vars


(***************************************************************************)
(* C25                                                                     *)
(***************************************************************************)
\* C25: a frame with no hand clears prev_pos, prev_timestamp and
\* gesture_start_time and leaves last_trigger_time and gesture_timestamps as
\* they were; the first frame with a hand after it emits nothing and opens
\* no candidate.
C25_LostHandResetsCandidate ==
    [][ call'.op = "gesture.extract" =>
          /\ ~call'.hand.detected =>
                /\ gesture_detection'.prev_pos = <<None, None>>
                /\ gesture_detection'.prev_timestamp = None
                /\ gesture_detection'.gesture_start_time = None
                /\ gesture_detection'.last_trigger_time
                      = gesture_detection.last_trigger_time
                /\ gesture_detection'.gesture_timestamps
                      = gesture_detection.gesture_timestamps
                /\ ~call'.detected
          /\ (call.op = "gesture.extract" /\ ~call.hand.detected
                /\ call'.hand.detected) =>
                /\ ~call'.detected
                /\ gesture_detection'.gesture_start_time = None
      ]_vars

\* the hand was lost in the middle of a burst that had not yet emitted,
\* after an earlier gesture
C25_Witness ==
    /\ call.op = "gesture.extract"
    /\ ~call.hand.detected
    /\ GestureCount = 1
    /\ gesture_detection.last_trigger_time = gesture_detection.gesture_timestamps[1]
    /\ Len(bursts) = 2
    /\ bursts[2].start > gesture_detection.gesture_timestamps[1]
    /\ gesture_detection.gesture_start_time = None

(***************************************************************************)
(* C26                                                                     *)
(***************************************************************************)
\* C26: on every frame past the warm-up confirmed_windows goes up by one if
\* the window qualifies and down by one, not below 0, if it does not, a frame
\* on which no wrist is tracked counting as not qualifying; the counter is
\* never negative, and hand_stimming_confirmed turns true exactly on the
\* frame that brings the counter to CONFIRM_WINDOWS (3).
C26_ConfirmedWindowsCounter ==
    [][ (call'.op = "rep.frame"
            /\ now' - hand_repetition'.session_start_time >= 2000) =>
          LET before == hand_repetition.confirmed_windows
              after == hand_repetition'.confirmed_windows
              qualifies == call'.evaluated /\ HandWindowDetected(hand_repetition', now')
          IN  /\ after = IF qualifies THEN before + 1 ELSE Max(0, before - 1)
              /\ after >= 0
              /\ hand_repetition'.hand_stimming_confirmed
                    <=> (hand_repetition.hand_stimming_confirmed \/ after >= 3)
      ]_vars

(***************************************************************************)
(* C27                                                                     *)
(***************************************************************************)
\* C27: accumulated_stimming_time grows by TIME_WINDOW (2 s) on a window
\* evaluation that qualifies and is left alone by one that does not and by
\* add_position, so it never decreases within a session and is the seconds
\* of the qualifying windows evaluated; head_stimming_confirmed is true
\* exactly when it has reached MIN_TOTAL_TIME (3 s).
C27_AccumulatedStimmingTime ==
    [][ LET before == head_repetition.accumulated_stimming_time
            after == head_repetition'.accumulated_stimming_time
        IN  /\ call'.op = "rep.extract_from_window" =>
                  after = before + (IF HeadWindowValid(head_repetition) THEN 2000 ELSE 0)
            /\ call'.op = "rep.frame" =>
                  /\ after = before
                  /\ head_repetition'.head_stimming_confirmed
                        = head_repetition.head_stimming_confirmed
            /\ call'.op # "rep.reset" => after >= before
            /\ head_repetition'.head_stimming_confirmed <=> after >= 3000
      ]_vars

\* a second qualifying window has just been evaluated and has confirmed
C27_Witness ==
    /\ call.op = "rep.extract_from_window"
    /\ HeadWindowValid(head_repetition)
    /\ head_repetition.accumulated_stimming_time = 4000
    /\ head_repetition.head_stimming_confirmed

(***************************************************************************)
(* C28                                                                     *)
(***************************************************************************)
\* C28: hand stimming is confirmed only once the frames past the warm-up span
\* CONFIRM_WINDOWS x TIME_WINDOW = 6 s, and head stimming only once they span
\* MIN_TOTAL_TIME = 3 s: qualifying evaluations on consecutive frames that
\* span less do not confirm.
C28_ConfirmationTakesSessionTime ==
    /\ hand_repetition.hand_stimming_confirmed =>
          now - (hand_repetition.session_start_time + HAND_WARM_UP_PERIOD)
              >= CONFIRM_WINDOWS * HAND_TIME_WINDOW
    /\ head_repetition.head_stimming_confirmed =>
          now - (head_repetition.session_start_time + HEAD_WARM_UP_PERIOD)
              >= MIN_TOTAL_TIME

(***************************************************************************)
(* Specification of the two window evaluations: one tracked scalar (the    *)
(* left wrist's y, the nose's x) is fed to both repetition detectors, and  *)
(* each evaluates its window on every frame                                *)
(***************************************************************************)
WinMaxFrames == 9
WinStartTimes == {0}
\* the frames after the first come once the 2 s warm-up is over, 0.25 s apart
WinSteps == IF now = None \/ now >= HAND_WARM_UP_PERIOD THEN {250} ELSE {2000}
\* the tracked scalar, in thousandths of the frame
WinValues == {500, 510, 530, 800}

WinCall ==
    IF call.op = "init"
    THEN [op |-> "win.idle", frames |-> 0, hand_oscillations |-> 0,
          head_oscillations |-> 0]
    ELSE call

\* HandRepetitionFeature.extract, then HeadRepetitionFeature.add_position and
\* extract_from_window, on a frame whose pose has the left wrist at y and
\* whose head pose has the nose at (y, 0.5)
WinFrame ==
    /\ WinCall.frames < WinMaxFrames
    /\ \E ts \in (IF now = None THEN WinStartTimes ELSE {now + d : d \in WinSteps}),
          y \in WinValues :
        LET pose == [detected |-> TRUE, left_visible |-> TRUE, left_y |-> y,
                     right_visible |-> FALSE, right_y |-> 0]
            hand == HandExtract(hand_repetition, ts, pose)
            head == HeadAddPosition(head_repetition, <<y, 500>>, ts)
        IN  /\ now' = ts
            /\ hand_repetition' = hand
            /\ head_repetition' = HeadExtractFromWindow(head)
            /\ call' = [op |-> "win.frame", frames |-> WinCall.frames + 1,
                        hand_oscillations |->
                            HandCountOscillations(hand.left_positions, ts),
                        head_oscillations |-> HeadWindowTotal(head)]
    /\ UNCHANGED <<blink_rate, eye_contact, gesture_detection, bursts,
                   head_movement, expression_variability, orchestrator,
                   gesture_twin, shifted>>

WinNext == WinFrame

SpecWindow == Init /\ [][WinNext]_vars

(***************************************************************************)
(* C29                                                                     *)
(***************************************************************************)
\* the samples of the hand detector's window, and of the head detector's
HandWindowValues ==
    LET window == SelectSeq(hand_repetition.left_positions,
                            LAMBDA p : p[1] >= now - 2000)
    IN  [i \in DOMAIN window |-> window[i][2]]
HeadWindowValues ==
    [i \in DOMAIN head_repetition.head_positions |->
        head_repetition.head_positions[i][2][1]]
\* max - min of the tracked scalar
Amplitude(values) == SeqMax(values) - SeqMin(values)

\* C29: in the hand and in the head detector a window whose amplitude is
\* below MIN_AMPLITUDE (0.02) or above MAX_AMPLITUDE (0.25) yields zero
\* oscillations.
C29_AmplitudeGate ==
    call.op = "win.frame" =>
        /\ (Len(HandWindowValues) > 0
              /\ (Amplitude(HandWindowValues) < 20 \/ Amplitude(HandWindowValues) > 250))
                 => call.hand_oscillations = 0
        /\ (Len(HeadWindowValues) > 0
              /\ (Amplitude(HeadWindowValues) < 20 \/ Amplitude(HeadWindowValues) > 250))
                 => call.head_oscillations = 0

(***************************************************************************)
(* C30                                                                     *)
(***************************************************************************)
\* |last - first| over the amplitude exceeds 0.65
Drifts(values) ==
    100 * Abs(values[Len(values)] - values[1]) > 65 * Amplitude(values)

\* C30: in the hand and in the head detector a window whose drift ratio
\* (|last - first| over the peak-to-peak amplitude) exceeds 0.65 yields zero
\* oscillations.
C30_DriftGate ==
    call.op = "win.frame" =>
        /\ (Len(HandWindowValues) > 0 /\ Drifts(HandWindowValues))
              => call.hand_oscillations = 0
        /\ (Len(HeadWindowValues) > 0 /\ Drifts(HeadWindowValues))
              => call.head_oscillations = 0

(***************************************************************************)
(* C31                                                                     *)
(***************************************************************************)
\* the direction reversals of values once the near-zero steps (below 0.001)
\* are removed from its sample-to-sample steps
ReversalsWithoutNearZero(values) ==
    LET steps == [i \in 1 .. (Len(values) - 1) |-> values[i + 1] - values[i]]
        kept == SelectSeq(steps, LAMBDA d : Abs(d) >= 1)
    IN  Cardinality({ i \in 1 .. (Len(kept) - 1) : kept[i] * kept[i + 1] < 0 })

\* C31: the oscillation count of a window that passes the sample, amplitude
\* and drift gates is the number of direction reversals of its steps with the
\* near-zero steps removed, in the hand and in the head detector.
C31_OscillationsAreReversals ==
    call.op = "win.frame" =>
        /\ (Len(HandWindowValues) >= 8
              /\ Amplitude(HandWindowValues) >= 20 /\ Amplitude(HandWindowValues) <= 250)
              => call.hand_oscillations = ReversalsWithoutNearZero(HandWindowValues)
        /\ (Len(HeadWindowValues) >= 6
              /\ Amplitude(HeadWindowValues) >= 20 /\ ~Drifts(HeadWindowValues))
              => call.head_oscillations = ReversalsWithoutNearZero(HeadWindowValues)

(***************************************************************************)
(* C32                                                                     *)
(***************************************************************************)
\* the samples of a buffer that lie within TIME_WINDOW (2.0 s) of the
\* current frame
WithinTimeWindow(buffer) == SelectSeq(buffer, LAMBDA p : p[1] >= now - 2000)

\* C32: what an evaluation yields is what it yields on the samples within
\* TIME_WINDOW of the current frame alone: the head detector's oscillation
\* total at extract_from_window, the hand detector's two counts on a frame
\* that reaches them.
C32_OnlyTheWindowIsEvaluated ==
    /\ call.op = "rep.extract_from_window" =>
          HeadWindowTotal(head_repetition)
              = HeadWindowTotal([head_repetition EXCEPT
                                    !.head_positions = WithinTimeWindow(@)])
    /\ (call.op = "rep.frame" /\ call.evaluated) =>
          /\ HandCountOscillations(hand_repetition.left_positions, now)
                = HandCountOscillations(
                      WithinTimeWindow(hand_repetition.left_positions), now)
          /\ HandCountOscillations(hand_repetition.right_positions, now)
                = HandCountOscillations(
                      WithinTimeWindow(hand_repetition.right_positions), now)

(***************************************************************************)
(* C33                                                                     *)
(***************************************************************************)
\* C33: deepface_available never goes from disabled to enabled; an extract
\* call disables it only on a connection error of a call it made; a timeout,
\* a non-200 status, an unusable answer or another error leaves it enabled;
\* and while it is disabled extract makes no call, raises nothing and still
\* counts the frame.
C33_AvailabilityIsALatch ==
    [][ /\ expression_variability'.deepface_available
              => expression_variability.deepface_available
        /\ call'.op = "expr.extract" =>
              /\ (expression_variability.deepface_available
                    /\ ~expression_variability'.deepface_available)
                    <=> call'.outcome = "connection"
              /\ ~expression_variability.deepface_available =>
                    /\ call'.outcome = "none"
                    /\ call'.raised = "no"
                    /\ expression_variability'.emotion_history
                          = expression_variability.emotion_history
                    /\ expression_variability'.total_frames_processed
                          = expression_variability.total_frames_processed + 1
      ]_vars

\* the service was up at construction, the first call met a connection
\* error, and the 20th frame, a sampling point, has passed without a call
C33_Witness ==
    /\ call.op = "expr.extract"
    /\ call.constructed
    /\ ~expression_variability.deepface_available
    /\ expression_variability.total_frames_processed = 20
    /\ call.sampled = 1
    /\ call.outcome = "none"

(***************************************************************************)
(* ExpressionVariabilityFeature.get_summary over long sessions: every      *)
(* frame shows a face, frames are 0.25 s apart, and the service answers    *)
(* each call with a label or times out.  get_summary only counts the       *)
(* labels, so the sessions enumerated are those whose "happy" answers come *)
(* before the "sad" ones.                                                  *)
(***************************************************************************)
LevelMaxFrames == 220
LevelStartTimes == {0}
LevelSteps == {250}

\* what the service may answer on this frame
LevelOutcomes(ts) ==
    IF ~ExprSamples(expression_variability, ts, TRUE)
    THEN {[kind |-> "status", emotion |-> ""]}
    ELSE {[kind |-> "timeout", emotion |-> ""], [kind |-> "ok", emotion |-> "sad"]}
         \cup (IF LabelCount(expression_variability.emotion_history, "sad") = 0
               THEN {[kind |-> "ok", emotion |-> "happy"]} ELSE {})

LevelFrame ==
    /\ expression_variability.total_frames_processed < LevelMaxFrames
    /\ \E ts \in (IF now = None THEN LevelStartTimes ELSE {now + d : d \in LevelSteps}) :
        \E outcome \in LevelOutcomes(ts) :
        /\ now' = ts
        /\ expression_variability' =
               ExprExtract(expression_variability, ts, TRUE, outcome)
        /\ call' = [op |-> "level.extract"]
        /\ UNCHANGED <<blink_rate, eye_contact, gesture_detection, bursts,
                       gesture_twin, shifted, head_repetition, hand_repetition,
                       head_movement, orchestrator>>

LevelGetSummary ==
    /\ call.op # "level.get_summary"
    /\ call' = [op |-> "level.get_summary",
                result |-> ExprSummary(expression_variability)]
    /\ UNCHANGED <<now, blink_rate, eye_contact, gesture_detection, bursts,
                   gesture_twin, shifted, head_repetition, hand_repetition,
                   head_movement, expression_variability, orchestrator>>

LevelNext == LevelFrame \/ LevelGetSummary

SpecLevel == Init /\ [][LevelNext]_vars

(***************************************************************************)
(* C34                                                                     *)
(***************************************************************************)
\* C34: get_summary reports low, moderate or high exactly when at least 20
\* labels were collected; with fewer it reports insufficient_data and
\* variability 0.0; and 20 or more labels that are all the same give low.
C34_LevelNeedsTwentyLabels ==
    call.op = "level.get_summary" =>
        LET history == expression_variability.emotion_history
            labels == { history[i] : i \in DOMAIN history }
        IN  /\ call.result.level \in {"low", "moderate", "high"}
                  <=> Len(history) >= 20
            /\ Len(history) < 20 =>
                  /\ call.result.level = "insufficient_data"
                  /\ call.result.variability = 0
            /\ (Len(history) >= 20 /\ Cardinality(labels) = 1) =>
                  call.result.level = "low"

\* twenty labels, all the same, summarised as low
C34_Witness ==
    /\ call.op = "level.get_summary"
    /\ Len(expression_variability.emotion_history) = 20
    /\ \A i \in DOMAIN expression_variability.emotion_history :
          expression_variability.emotion_history[i] = "happy"
    /\ call.result.level = "low"

(***************************************************************************)
(* C35                                                                     *)
(***************************************************************************)
\* the concerns of the summary just returned, and how often c is among them
Concerns == call.result.clinical_interpretation.concerns
Occurrences(c) == Cardinality({ i \in DOMAIN Concerns : Concerns[i] = c })

\* C35: in the summary get_session_summary returns, no concern is listed
\* twice; "Reduced eye contact" is listed iff the eye-contact level is low,
\* "Restricted facial expressions" iff the expression level is low, the two
\* stimming concerns iff the respective detector reports stimming, "Limited
\* social gestures" iff no gesture was detected; and a detector whose level
\* is insufficient_data contributes no concern.
C35_ConcernsFollowTheRules ==
    (call.op = "get_session_summary" /\ call.raised = "no") =>
        LET s == call.result.summary
            listed(c) == Occurrences(c) > 0
        IN  /\ \A i \in DOMAIN Concerns : Occurrences(Concerns[i]) = 1
            /\ listed("Reduced eye contact") <=> s.eye_contact_level = "low"
            /\ listed("Restricted facial expressions") <=> s.expression_level = "low"
            /\ listed("Hand stimming detected") <=> HandRepSummary(hand_repetition).detected
            /\ listed("Head stimming detected") <=> HeadRepSummary(head_repetition).detected
            /\ listed("Limited social gestures")
                  <=> Len(gesture_detection.gesture_timestamps) = 0
            /\ s.blink_level = "insufficient_data" => ~listed("Reduced blink rate")
            /\ s.expression_level = "insufficient_data"
                  => ~listed("Restricted facial expressions")
            /\ GestureSummary(gesture_detection, call.duration).level = "insufficient_data"
                  => ~listed("Limited social gestures")

(***************************************************************************)
(* The same session on two clocks: every frame goes to the engine with its *)
(* timestamp and to the second engine with the timestamp moved by origin.  *)
(* The first frame comes at 0, the next one at the end of the warm-up, the *)
(* later ones 0.25 s apart; no provider raises.  A frame without face,     *)
(* hand and pose may come among the first OriginEmptyFrames frames.        *)
(***************************************************************************)
OriginMaxFrames == 11
OriginEmptyFrames == 4
OriginStartTimes == {0}
Origins == {500, 1000000}
OriginFrames ==
    { FrameLooking, FrameEyesShut }
    \cup (IF orchestrator.frame_count < OriginEmptyFrames THEN {FrameEmpty} ELSE {})
OriginSteps == IF now < GESTURE_WARMUP THEN {2000} ELSE {250}

\* the engine's detectors as a record
Session ==
    [eye_contact |-> eye_contact, blink_rate |-> blink_rate,
     head_movement |-> head_movement, hand_repetition |-> hand_repetition,
     gesture_detection |-> gesture_detection,
     expression_variability |-> expression_variability,
     head_repetition |-> head_repetition, orchestrator |-> orchestrator]

\* process_frame(f, ts) on the engine s, f decodable
ProcessFrameOn(s, ts, f) ==
    [eye_contact |-> EyeExtract(s.eye_contact, ts, f.face),
     blink_rate |-> BlinkExtract(s.blink_rate, ts, f.face.detected, f.face.ear),
     head_movement |-> HeadMoveExtract(s.head_movement, ts, f.head_detected, f.nose_tip),
     hand_repetition |-> HandExtract(s.hand_repetition, ts, f.pose),
     gesture_detection |-> GestureExtract(s.gesture_detection, ts, f.hand),
     expression_variability |->
         ExprExtract(s.expression_variability, ts, f.haar_face, f.outcome),
     head_repetition |-> IF f.head_detected
                         THEN HeadAddPosition(s.head_repetition, f.nose_tip, ts)
                         ELSE s.head_repetition,
     orchestrator |-> OrchEnter(s.orchestrator, ts)]

OriginFrame ==
    /\ orchestrator.frame_count < OriginMaxFrames
    /\ \E ts \in (IF now = None THEN OriginStartTimes ELSE {now + d : d \in OriginSteps}),
          f \in OriginFrames,
          origin \in (IF shifted.origin = None THEN Origins ELSE {shifted.origin}) :
        LET here == ProcessFrameOn(Session, ts, f)
            there == ProcessFrameOn(shifted.session, ts + origin, f)
        IN  /\ now' = ts
            /\ eye_contact' = here.eye_contact
            /\ blink_rate' = here.blink_rate
            /\ head_movement' = here.head_movement
            /\ hand_repetition' = here.hand_repetition
            /\ gesture_detection' = here.gesture_detection
            /\ expression_variability' = here.expression_variability
            /\ head_repetition' = here.head_repetition
            /\ orchestrator' = here.orchestrator
            /\ shifted' = [origin |-> origin, session |-> there]
            /\ call' = [op |-> "origin.process_frame"]
            /\ UNCHANGED <<bursts, gesture_twin>>

\* get_session_summary on both engines: eye_contact.get_summary ends an open
\* segment
OriginGetSummary ==
    /\ call.op = "origin.process_frame"
    /\ eye_contact' = EyeAfterSummary(eye_contact)
    /\ shifted' = [shifted EXCEPT !.session.eye_contact = EyeAfterSummary(@)]
    /\ call' = [op |-> "origin.get_session_summary"]
    /\ UNCHANGED <<now, blink_rate, gesture_detection, bursts, gesture_twin,
                   head_repetition, hand_repetition, head_movement,
                   expression_variability, orchestrator>>

OriginNext == OriginFrame \/ OriginGetSummary

SpecOrigin == Init /\ [][OriginNext]_vars

(***************************************************************************)
(* C36                                                                     *)
(***************************************************************************)
\* the durations of the eye-contact segments of e
SegmentDurations(e) ==
    [i \in DOMAIN e.eye_contact_segments |->
        e.eye_contact_segments[i][2] - e.eye_contact_segments[i][1]]

\* C36: a session and the same session with every timestamp moved by the same
\* non-negative amount have the same number of blinks and of gestures, the
\* same eye-contact segment durations, the same stimming flags, and the same
\* detector summaries, hence the same session summary, for every duration.
C36_OriginDoesNotMatter ==
    shifted.origin # None =>
        LET there == shifted.session
        IN  /\ Len(there.blink_rate.blink_timestamps) = Len(blink_rate.blink_timestamps)
            /\ Len(there.gesture_detection.gesture_timestamps)
                  = Len(gesture_detection.gesture_timestamps)
            /\ SegmentDurations(there.eye_contact) = SegmentDurations(eye_contact)
            /\ there.hand_repetition.hand_stimming_confirmed
                  = hand_repetition.hand_stimming_confirmed
            /\ there.head_repetition.head_stimming_confirmed
                  = head_repetition.head_stimming_confirmed
            /\ there.orchestrator.frame_count = orchestrator.frame_count
            /\ EyeSummary(there.eye_contact) = EyeSummary(eye_contact)
            /\ HeadMoveSummary(there.head_movement) = HeadMoveSummary(head_movement)
            /\ HeadRepSummary(there.head_repetition) = HeadRepSummary(head_repetition)
            /\ HandRepSummary(there.hand_repetition) = HandRepSummary(hand_repetition)
            /\ ExprSummary(there.expression_variability)
                  = ExprSummary(expression_variability)
            /\ \A d \in Durations :
                  /\ BlinkSummary(there.blink_rate, d) = BlinkSummary(blink_rate, d)
                  /\ GestureSummary(there.gesture_detection, d)
                        = GestureSummary(gesture_detection, d)

\* a session on a clock far from 0 in which blinks and gestures were counted,
\* an eye-contact segment was recorded, and the summary was asked for
C36_Witness ==
    /\ call.op = "origin.get_session_summary"
    /\ shifted.origin = 1000000
    /\ Len(blink_rate.blink_timestamps) > 0
    /\ Len(gesture_detection.gesture_timestamps) > 1
    /\ Len(eye_contact.eye_contact_segments) > 0
    /\ gesture_detection.gesture_timestamps[1] = 2250

(***************************************************************************)
(* C37                                                                     *)
(***************************************************************************)
\* C37: get_summary ends a segment that is still open without recording it,
\* however long it has lasted: the recorded segments stay as they were, the
\* ratio is that of the recorded segments alone, and when nothing was
\* recorded before the call the ratio is 0 and the level low.
C37_OpenSegmentIsDiscarded ==
    [][ (call'.op = "eye.get_summary" /\ eye_contact.current_contact_start # None) =>
            /\ eye_contact'.current_contact_start = None
            /\ eye_contact'.eye_contact_segments = eye_contact.eye_contact_segments
            /\ call'.result.eye_contact_ratio =
                   Round3(SumDurations(eye_contact.eye_contact_segments),
                          EyeSessionTime(eye_contact))
            /\ eye_contact.eye_contact_segments = <<>> =>
                   /\ call'.result.eye_contact_ratio = 0
                   /\ call'.result.level = "low"
      ]_vars

\* the child looked at the camera from the end of the warm-up to the last
\* frame, 2 s or more, and the summary says ratio 0, level low
C37_Witness ==
    /\ call.op = "eye.get_summary"
    /\ call.open_for >= 2000
    /\ eye_contact.session_start_time + EYE_WARMUP + call.open_for = now
    /\ eye_contact.eye_contact_segments = <<>>
    /\ call.result.eye_contact_ratio = 0
    /\ call.result.level = "low"

(***************************************************************************)
(* C38                                                                     *)
(***************************************************************************)
\* every timestamp of the sequence times lies at least warmup after start,
\* and after the orchestrator's session start
PastWarmup(times, start, warmup) ==
    \A i \in DOMAIN times :
        /\ start # None
        /\ times[i] - start >= warmup
        /\ orchestrator.session_start_time # None
              => times[i] - orchestrator.session_start_time >= warmup

\* the first components of a sequence of tuples
Stamps(samples) == [i \in DOMAIN samples |-> samples[i][1]]

\* C38: every blink and gesture timestamp, every eye-contact segment start
\* (recorded or open), every stored head-repetition and wrist sample lies at
\* least 2.0 s after the detector's session start, and every head_pose_history
\* sample at least 10.0 s after it.
C38_NothingRecordedInWarmup ==
    /\ PastWarmup(blink_rate.blink_timestamps, blink_rate.session_start_time, 2000)
    /\ PastWarmup(gesture_detection.gesture_timestamps,
                  gesture_detection.session_start_time, 2000)
    /\ PastWarmup(Stamps(eye_contact.eye_contact_segments),
                  eye_contact.session_start_time, 2000)
    /\ eye_contact.current_contact_start # None =>
          PastWarmup(<<eye_contact.current_contact_start>>,
                     eye_contact.session_start_time, 2000)
    /\ PastWarmup(Stamps(head_repetition.head_positions),
                  head_repetition.session_start_time, 2000)
    /\ PastWarmup(Stamps(hand_repetition.left_positions),
                  hand_repetition.session_start_time, 2000)
    /\ PastWarmup(Stamps(hand_repetition.right_positions),
                  hand_repetition.session_start_time, 2000)
    /\ PastWarmup(Stamps(head_movement.head_pose_history),
                  head_movement.session_start_time, 10000)

\* a session that has recorded a blink, a gesture, a head pose, a head
\* position and a wrist sample, with an eye-contact segment open
C38_Witness ==
    /\ call.op = "process_frame"
    /\ Len(blink_rate.blink_timestamps) > 0
    /\ Len(gesture_detection.gesture_timestamps) > 0
    /\ eye_contact.current_contact_start # None
    /\ Len(head_repetition.head_positions) > 0
    /\ Len(hand_repetition.left_positions) > 0
    /\ Len(head_movement.head_pose_history) > 0

(***************************************************************************)
(* C39                                                                     *)
(***************************************************************************)
\* C39: when get_session_summary is called on a session of at least one
\* frame, none of which showed a face, a hand or a pose, it returns the
\* concerns "Reduced eye contact" and "Limited social gestures", risk_score
\* 0.4 and risk_level "Moderate".
C39_NoDataIsModerate ==
    (call.op = "get_session_summary" /\ orchestrator.frame_count >= 1 /\ ~call.seen) =>
        /\ call.raised = "no"
        /\ call.result.clinical_interpretation.concerns
               = <<"Reduced eye contact", "Limited social gestures">>
        /\ call.result.clinical_interpretation.risk_score = 400
        /\ call.result.clinical_interpretation.risk_level = "Moderate"
====
